---- MODULE Spec2Model ----
(***************************************************************************)
(* HRMS admin console: the HTTP client core of src/src/services/api.ts     *)
(* (request interceptor, handleApiError, response interceptor), the Auth   *)
(* facade stub, and the session token kept in localStorage.                *)
(***************************************************************************)
EXTENDS Integers, Sequences, FiniteSets, TLC

VARIABLES
    localStorage,   \* [authToken |-> optional string]: the one persisted key
    location,       \* window.location.href (path part)
    now,            \* Date.now(), a monotonic clock
    inflight,       \* requests dispatched by the axios instance and not settled
    pendingAuth,    \* Auth facade calls waiting on their setTimeout delay
    last,           \* the step just taken: what was called and what came back
    dashboard,      \* DashboardPage: its useState values and its two calls
    addEmployee,    \* AddEmployee form: its useState values and its call
    markAttendance, \* MarkAttendance form: its useState values and its calls
    attendanceView, \* AttendanceView: its useState values and its fetches
    employeeList    \* EmployeeList: its useState values, its fetches and deletes

coreVars == <<localStorage, location, now, inflight, pendingAuth, last>>
uiVars == <<dashboard, addEmployee, markAttendance, attendanceView, employeeList>>
sessionVars == <<localStorage, location, now, inflight, pendingAuth>>
vars == <<localStorage, location, now, inflight, pendingAuth, last,
          dashboard, addEmployee, markAttendance, attendanceView, employeeList>>

\* ------------------------------------------------------------------ bounds

MaxNow == 2
MaxInFlight == 2
MaxPendingAuth == 1

\* ------------------------------------------------- JavaScript value model

\* An optional value: <<>> is undefined (absent), <<v>> is the value v.
Undefined == <<>>
Some(v) == <<v>>

\* JavaScript truthiness of an optional string: undefined and "" are falsy.
Truthy(o) == o # Undefined /\ o[1] # ""

\* Array.prototype.join(sep) on a sequence of strings.
RECURSIVE Join(_, _)
Join(items, sep) ==
    IF items = <<>> THEN ""
    ELSE IF Len(items) = 1 THEN items[1]
    ELSE items[1] \o sep \o Join(Tail(items), sep)

\* Object.values(errors).flat(): the values of the mapping in iteration
\* order, each value an array of strings spliced in place (a value that is a
\* single string is the one-element case).
\* Mutant: the values are taken in reverse iteration order.
RECURSIVE FlatValues_Reversed(_)
FlatValues_Reversed(mapping) ==
    IF mapping = <<>> THEN <<>>
    ELSE FlatValues_Reversed(Tail(mapping)) \o mapping[1].msgs

RECURSIVE FlatValues(_)
FlatValues(mapping) ==
    IF mapping = <<>> THEN <<>>
    ELSE mapping[1].msgs \o FlatValues(Tail(mapping))

\* errorData.map(err => err.message || err) on an array body; an object
\* without a truthy message is rendered by join() as "[object Object]".
RECURSIVE MapItems(_)
MapItems(items) ==
    IF items = <<>> THEN <<>>
    ELSE << IF items[1].isString THEN items[1].text
            ELSE IF items[1].text # "" THEN items[1].text
            ELSE "[object Object]" >> \o MapItems(Tail(items))

\* ------------------------------------------------------- response bodies

\* error.response.data.  kind "none": no body (undefined, null or "").
\* kind "object": the four fields handleApiError looks at, each optional;
\* errors is an optional mapping, a sequence of [field, msgs] entries.
\* kind "array": a sequence of strings and {message} objects.
Body(kind, detailMessage, message, error, errors, items) ==
    [kind |-> kind, detailMessage |-> detailMessage, message |-> message,
     error |-> error, errors |-> errors, items |-> items]

NoBody == Body("none", Undefined, Undefined, Undefined, Undefined, <<>>)

ErrorsMappings ==
    { Undefined,
      Some(<<>>),
      Some(<< [field |-> "email", msgs |-> <<"Invalid email">>] >>),
      Some(<< [field |-> "employee_id", msgs |-> <<"Required", "Too short">>],
              [field |-> "email", msgs |-> <<"Invalid email">>] >>) }

ObjectBodies ==
    { Body("object", d, m, e, es, <<>>) :
        d \in {Undefined, Some(""), Some("Employee not found")},
        m \in {Undefined, Some("Bad input")},
        e \in {Undefined, Some("Conflict detected")},
        es \in ErrorsMappings }

ArrayBodies ==
    { Body("array", Undefined, Undefined, Undefined, Undefined, it) :
        it \in { <<>>,
                 << [isString |-> TRUE, text |-> "first"] >>,
                 << [isString |-> FALSE, text |-> "second"],
                    [isString |-> TRUE, text |-> "first"] >>,
                 << [isString |-> FALSE, text |-> ""] >> } }

Bodies == {NoBody} \cup ObjectBodies \cup ArrayBodies

\* if (error.response?.data): an absent body is falsy, objects and arrays
\* (even empty ones) are truthy.
HasData(error) == error.response # Undefined /\ error.response[1].data.kind # "none"

\* ------------------------------------------------------------ axios errors

\* The error axios rejects with: response (optional [status, statusText,
\* data]), request (whether a request object exists), code and message.
AxiosError(response, request, code, message) ==
    [response |-> response, request |-> request, code |-> code, message |-> message]

Statuses == {400, 401, 403, 404, 409, 422, 500, 503}

\* axios: "Request failed with status code N", code ERR_BAD_REQUEST for 4xx
\* and ERR_BAD_RESPONSE for 5xx.
ResponseError(status, statusText, data) ==
    AxiosError(Some([status |-> status, statusText |-> statusText, data |-> data]),
               TRUE,
               Some(IF status >= 500 THEN "ERR_BAD_RESPONSE" ELSE "ERR_BAD_REQUEST"),
               "Request failed with status code " \o ToString(status))

ResponseErrors ==
    { ResponseError(s, "", b) : s \in Statuses, b \in Bodies }
    \cup { ResponseError(503, "Service Unavailable", b) : b \in Bodies }

\* No response at all: the request was made (timeout, connectivity, other
\* transport failure), or it never was (request-setup failure).
TransportErrors ==
    { AxiosError(Undefined, TRUE, Some("ECONNABORTED"), "timeout of 5000ms exceeded"),
      AxiosError(Undefined, TRUE, Some("ERR_NETWORK"), "Network Error"),
      AxiosError(Undefined, TRUE, Some("ERR_FR_TOO_MANY_REDIRECTS"), "Maximum number of redirects exceeded"),
      AxiosError(Undefined, TRUE, Undefined, "") }

SetupErrors ==
    { AxiosError(Undefined, FALSE, Some("ERR_INVALID_URL"), "Invalid URL"),
      AxiosError(Undefined, FALSE, Undefined, "") }

ApiErrors == ResponseErrors \cup TransportErrors \cup SetupErrors

\* ------------------------------------------------------------ handleApiError

\* The status-code table of handleApiError (switch on error.response.status).
StatusTable(status, statusText) ==
    CASE status = 400 -> "Invalid request. Please check your input."
      [] status = 401 -> "Unauthorized. Please login again."
      [] status = 403 -> "Access denied. You do not have permission."
      [] status = 404 -> "Resource not found."
      [] status = 409 -> "Conflict. The resource already exists."
      [] status = 422 -> "Validation error. Please check your input."
      [] status = 500 -> "Server error. Please try again later."
      [] OTHER -> "Error " \o ToString(status) \o ": "
                  \o (IF statusText # "" THEN statusText ELSE "Unknown error")

\* handleApiError(error): the message derived from body, code and status.
handleApiError(error) ==
    LET data == error.response[1].data IN
    IF HasData(error) /\ Truthy(data.detailMessage) THEN data.detailMessage[1]
    ELSE IF HasData(error) /\ Truthy(data.message) THEN data.message[1]
    ELSE IF HasData(error) /\ Truthy(data.error) THEN data.error[1]
    ELSE IF HasData(error) /\ data.errors # Undefined
        THEN Join(FlatValues(data.errors[1]), ", ")
    ELSE IF HasData(error) /\ data.kind = "array"
        THEN Join(MapItems(data.items), ", ")
    ELSE IF error.code = Some("ECONNABORTED") THEN "Request timeout. Please try again."
    ELSE IF error.code = Some("ERR_NETWORK") THEN "Network error. Please check your connection."
    ELSE IF error.response # Undefined
        THEN StatusTable(error.response[1].status, error.response[1].statusText)
    ELSE IF error.message # "" THEN error.message
    ELSE "An unexpected error occurred. Please try again."

\* ------------------------------------------------------ request interceptor

\* api.interceptors.request.use: the Authorization header put on the config,
\* from the token read out of localStorage when the request is dispatched.
\* Mutant: the token is read once when the module loads (nothing is stored
\* then) instead of at each dispatch.
requestInterceptor_ReadAtStartup(storage) == Undefined

requestInterceptor(storage) ==
    IF Truthy(storage.authToken)
        THEN Some("Bearer " \o storage.authToken[1])
        ELSE Undefined

\* ----------------------------------------------------- response interceptor

\* api.interceptors.response.use, rejected handler: the userMessage the
\* handler leaves on the error (undefined when it assigns none).
responseUserMessage(error) ==
    IF error.response # Undefined THEN
        CASE error.response[1].status = 401 -> Undefined
          [] error.response[1].status = 403 ->
                Some("Access denied. You do not have permission to perform this action.")
          [] error.response[1].status = 404 ->
                Some("The requested resource was not found.")
          [] error.response[1].status = 422 -> Some(handleApiError(error))
          [] error.response[1].status = 500 ->
                Some("Server error. Please try again later.")
          [] OTHER -> Some(handleApiError(error))
    ELSE IF error.request THEN
        Some("Network error. Please check your connection and try again.")
    ELSE Undefined

\* Mutant: the 401 case clears the token and forgets the redirect.
responseSideEffects_NoRedirect(error) ==
    IF error.response # Undefined /\ error.response[1].status = 401
        THEN << [op |-> "removeItem", arg |-> "authToken"] >>
        ELSE <<>>

\* Mutant: a 403 falls into the 401 case.
responseSideEffects_Also403(error) ==
    IF error.response # Undefined /\ error.response[1].status \in {401, 403}
        THEN << [op |-> "removeItem", arg |-> "authToken"],
                [op |-> "setHref", arg |-> "/login"] >>
        ELSE <<>>

\* The storage and navigation calls the rejected handler makes, in order.
responseSideEffects(error) ==
    IF error.response # Undefined /\ error.response[1].status = 401
        THEN << [op |-> "removeItem", arg |-> "authToken"],
                [op |-> "setHref", arg |-> "/login"] >>
        ELSE <<>>

\* localStorage after the calls of a list of side effects.
RECURSIVE StorageAfter(_, _)
StorageAfter(storage, effects) ==
    IF effects = <<>> THEN storage
    ELSE StorageAfter(
            IF effects[1].op = "removeItem" /\ effects[1].arg = "authToken"
                THEN [storage EXCEPT !.authToken = Undefined]
                ELSE storage,
            Tail(effects))

\* window.location.href after the calls of a list of side effects.
RECURSIVE LocationAfter(_, _)
LocationAfter(href, effects) ==
    IF effects = <<>> THEN href
    ELSE LocationAfter(IF effects[1].op = "setHref" THEN effects[1].arg ELSE href,
                       Tail(effects))

\* How many of the side effects are calls of op.
RECURSIVE CountOp(_, _)
CountOp(effects, op) ==
    IF effects = <<>> THEN 0
    ELSE (IF effects[1].op = op THEN 1 ELSE 0) + CountOp(Tail(effects), op)

\* ------------------------------------------------------------- Auth facade

DemoEmail == "admin@hrms.com"
DemoPassword == "admin123"

Credentials ==
    { [email |-> e, password |-> p] :
        e \in {DemoEmail, "user@hrms.com", "Admin@hrms.com"},
        p \in {DemoPassword, "letmein", "admin123 "} }

Thrown(status, error, message, code) ==
    [status |-> status, error |-> error, message |-> message, code |-> code]

AuthResult(ok, token, thrown) == [ok |-> ok, token |-> token, thrown |-> thrown]

\* Mutant: only the email is compared.
authApi_login_EmailOnly(credentials, clock) ==
    IF credentials.email = DemoEmail
        THEN AuthResult(TRUE, Some("dummy-jwt-token-" \o ToString(clock)), Undefined)
        ELSE AuthResult(FALSE, Undefined,
                Some(Thrown(Some(401), Some("Invalid credentials"),
                            "Invalid email or password", Some("INVALID_CREDENTIALS"))))

\* authApi.login: the demo pair gets a token stamped with Date.now(), any
\* other pair is rejected with the 401-shaped INVALID_CREDENTIALS object.
authApi_login(credentials, clock) ==
    IF credentials.email = DemoEmail /\ credentials.password = DemoPassword
        THEN AuthResult(TRUE, Some("dummy-jwt-token-" \o ToString(clock)), Undefined)
        ELSE AuthResult(FALSE, Undefined,
                Some(Thrown(Some(401), Some("Invalid credentials"),
                            "Invalid email or password", Some("INVALID_CREDENTIALS"))))

\* authApi.refreshToken: a fresh token string when a token is stored,
\* otherwise Error('No token to refresh').
authApi_refreshToken(storage, clock) ==
    IF Truthy(storage.authToken)
        THEN AuthResult(TRUE, Some("refreshed-dummy-jwt-token-" \o ToString(clock)), Undefined)
        ELSE AuthResult(FALSE, Undefined,
                Some(Thrown(Undefined, Undefined, "No token to refresh", Undefined)))

\* authApi.getCurrentUser: the admin user when a token is stored, otherwise
\* the 401-shaped INVALID_TOKEN object.
authApi_getCurrentUser(storage) ==
    IF Truthy(storage.authToken)
        THEN AuthResult(TRUE, Undefined, Undefined)
        ELSE AuthResult(FALSE, Undefined,
                Some(Thrown(Some(401), Some("Unauthorized"),
                            "Invalid or expired token", Some("INVALID_TOKEN"))))

\* Mutant: a 401-shaped rejection of the facade is handled like a 401 of
\* the axios instance.
authApi_rejectionEffects_ThroughCore(result) ==
    IF ~result.ok /\ result.thrown[1].status = Some(401)
        THEN << [op |-> "removeItem", arg |-> "authToken"],
                [op |-> "setHref", arg |-> "/login"] >>
        ELSE <<>>

\* What else login, refreshToken and getCurrentUser do to localStorage and
\* window.location: they return or throw plain objects without a call
\* through the axios instance, so no interceptor runs and nothing is written.
authApi_rejectionEffects(result) == <<>>

\* Mutant: logout answers success and leaves the token in place.
authApi_logout_KeepsToken(storage) == storage

\* authApi.logout: localStorage.removeItem('authToken').
authApi_logout(storage) == [storage EXCEPT !.authToken = Undefined]

\* Mutant: the token is handed to the caller and never written.
sessionLogin_NoWrite(storage, result) == storage

\* The session's login (contexts/AuthContext): the token authApi.login
\* returned is written under authToken; a rejected login writes nothing.
sessionLogin(storage, result) ==
    IF result.ok THEN [storage EXCEPT !.authToken = result.token] ELSE storage

\* ----------------------------------------------------------- state machine

\* The facade calls that go through the axios instance (method and path).
Requests ==
    { [method |-> "GET", path |-> "/employees"],
      [method |-> "POST", path |-> "/attendance"] }

\* The router links of the navigation bar.
Routes == {"/employees", "/attendance"}

\* The Auth facade's calls.
\* The pairs the session model logs in with: the demo pair and a wrong one.
SessionCredentials ==
    { c \in Credentials : c.email = DemoEmail /\ c.password \in {DemoPassword, "letmein"} }

AuthOps ==
    { [name |-> "login", credentials |-> Some(c)] : c \in SessionCredentials }
    \cup { [name |-> n, credentials |-> Undefined] :
            n \in {"logout", "refreshToken", "getCurrentUser"} }

\* The record of a step; the fields a step does not use keep these values.
NoEvent ==
    [type |-> "init", req |-> Undefined, authorization |-> Undefined,
     error |-> Undefined, userMessage |-> Undefined, effects |-> <<>>,
     result |-> Undefined, credentials |-> Undefined]

\* The failures the session model lets a call end with: each status the
\* response interceptor has a case for and one it has none for (409), with
\* an empty body; a 401 with a detail.message body; a timeout and a
\* request-setup failure.
SessionErrors ==
    { ResponseError(s, "", NoBody) : s \in {401, 403, 404, 409, 422, 500} }
    \cup { ResponseError(401, "",
              Body("object", Some("Invalid or expired token"), Undefined, Undefined,
                   Undefined, <<>>)) }
    \cup { e \in TransportErrors : e.code = Some("ECONNABORTED") }
    \cup { e \in SetupErrors : e.code = Undefined }

\* ------------------------------------------- components' initial state

\* DashboardPage's useState values; neither call issued yet.
DashboardInitial ==
    [employees |-> <<>>, attendanceRecords |-> <<>>, isLoading |-> TRUE,
     error |-> "", employeesCall |-> "idle", attendanceCall |-> "idle",
     employeesData |-> Undefined, attendanceData |-> Undefined,
     settled |-> FALSE, view |-> Undefined]

\* The errors object of a form: one optional message per key.
NoErrors ==
    [employee_id |-> Undefined, full_name |-> Undefined, email |-> Undefined,
     department |-> Undefined, attendance_date |-> Undefined,
     status |-> Undefined, submit |-> Undefined]

\* AddEmployee's useState values; no call in flight.
AddEmployeeInitial ==
    [formData |-> [employee_id |-> "", full_name |-> "", email |-> "",
                   department |-> ""],
     errors |-> NoErrors, isLoading |-> FALSE, successMessage |-> "",
     request |-> Undefined, added |-> FALSE]

\* new Date().toISOString().split('T')[0] on the day the model runs.
Today == "2024-01-02"

\* MarkAttendance's useState values; no call in flight.
MarkAttendanceInitial ==
    [formData |-> [employee_id |-> "", attendance_date |-> Today,
                   status |-> "PRESENT"],
     errors |-> NoErrors, isLoading |-> FALSE, successMessage |-> "",
     request |-> Undefined, marked |-> FALSE,
     employees |-> <<>>, isLoadingEmployees |-> TRUE, employeesError |-> "",
     employeesCall |-> "idle"]

\* AttendanceView's useState values; no fetch issued yet. heldFor is the
\* fetch whose response setAllAttendanceRecords stored last.
AttendanceViewInitial ==
    [selectedEmployee |-> "", startDate |-> "", endDate |-> "",
     statusFilter |-> "", isLoading |-> TRUE, error |-> "",
     isLoadingEmployees |-> TRUE, employeesError |-> "",
     employeesCall |-> "idle", allAttendanceRecords |-> <<>>,
     attendanceRecords |-> <<>>, currentPage |-> 1, pending |-> {},
     issued |-> 0, heldFor |-> Undefined]

\* EmployeeList's useState values; no fetch issued, no delete in flight.
EmployeeListInitial ==
    [employees |-> <<>>, allEmployees |-> <<>>, isLoading |-> TRUE,
     error |-> "", deleteLoading |-> Undefined, currentPage |-> 1,
     mounted |-> FALSE, fetches |-> 0, issued |-> 0, deletes |-> {},
     deleted |-> 0]

\* The components as constructed, before any of them has issued a call.
InitUi ==
    /\ dashboard = DashboardInitial
    /\ addEmployee = AddEmployeeInitial
    /\ markAttendance = MarkAttendanceInitial
    /\ attendanceView = AttendanceViewInitial
    /\ employeeList = EmployeeListInitial

\* A fresh page before any login: nothing stored, the login page shown.
Init ==
    /\ localStorage = [authToken |-> Undefined]
    /\ location = "/login"
    /\ now = 1
    /\ inflight = {}
    /\ pendingAuth = {}
    /\ last = NoEvent
    /\ InitUi

\* Time passes.
Tick ==
    /\ now < MaxNow
    /\ now' = now + 1
    /\ last' = [NoEvent EXCEPT !.type = "tick"]
    /\ UNCHANGED <<localStorage, location, inflight, pendingAuth>>
    /\ UNCHANGED uiVars

\* The operator follows a router link.
Navigate(path) ==
    /\ location # path
    /\ location' = path
    /\ last' = [NoEvent EXCEPT !.type = "navigate"]
    /\ UNCHANGED <<localStorage, now, inflight, pendingAuth>>
    /\ UNCHANGED uiVars

\* A facade call: the request interceptor runs, then the request is sent.
Dispatch(req) ==
    LET call == [req |-> req, authorization |-> requestInterceptor(localStorage)] IN
    /\ Cardinality(inflight) < MaxInFlight
    /\ call \notin inflight
    /\ inflight' = inflight \cup {call}
    /\ last' = [NoEvent EXCEPT !.type = "dispatch", !.req = Some(req),
                               !.authorization = call.authorization]
    /\ UNCHANGED <<localStorage, location, now, pendingAuth>>
    /\ UNCHANGED uiVars

\* A 2xx response: the response interceptor hands it on unchanged.
Resolve(call) ==
    /\ call \in inflight
    /\ inflight' = inflight \ {call}
    /\ last' = [NoEvent EXCEPT !.type = "resolved", !.req = Some(call.req)]
    /\ UNCHANGED <<localStorage, location, now, pendingAuth>>
    /\ UNCHANGED uiVars

\* Mutant: a failed call is sent again instead of being handed back.
Reject_Retries(call, error) ==
    /\ call \in inflight
    /\ inflight' = inflight
    /\ localStorage' = StorageAfter(localStorage, responseSideEffects(error))
    /\ location' = LocationAfter(location, responseSideEffects(error))
    /\ last' = [NoEvent EXCEPT !.type = "rejected", !.req = Some(call.req),
                               !.error = Some(error),
                               !.userMessage = responseUserMessage(error),
                               !.effects = responseSideEffects(error)]
    /\ UNCHANGED <<now, pendingAuth>>
    /\ UNCHANGED uiVars

\* A failure: the response interceptor's rejected handler runs on the error,
\* then the error is handed back to the caller.
Reject(call, error) ==
    /\ call \in inflight
    /\ inflight' = inflight \ {call}
    /\ localStorage' = StorageAfter(localStorage, responseSideEffects(error))
    /\ location' = LocationAfter(location, responseSideEffects(error))
    /\ last' = [NoEvent EXCEPT !.type = "rejected", !.req = Some(call.req),
                               !.error = Some(error),
                               !.userMessage = responseUserMessage(error),
                               !.effects = responseSideEffects(error)]
    /\ UNCHANGED <<now, pendingAuth>>
    /\ UNCHANGED uiVars

\* An Auth facade call starts: it first waits on its setTimeout delay.
AuthStart(op) ==
    /\ Cardinality(pendingAuth) < MaxPendingAuth
    /\ op \notin pendingAuth
    /\ pendingAuth' = pendingAuth \cup {op}
    /\ last' = [NoEvent EXCEPT !.type = "authStart"]
    /\ UNCHANGED <<localStorage, location, now, inflight>>
    /\ UNCHANGED uiVars

\* login after its delay: authApi.login decides, the session stores the token.
LoginDone(op) ==
    /\ op \in pendingAuth /\ op.name = "login"
    /\ pendingAuth' = pendingAuth \ {op}
    /\ localStorage' =
        sessionLogin(StorageAfter(localStorage,
                        authApi_rejectionEffects(authApi_login(op.credentials[1], now))),
                     authApi_login(op.credentials[1], now))
    /\ location' = LocationAfter(location,
                        authApi_rejectionEffects(authApi_login(op.credentials[1], now)))
    /\ last' = [NoEvent EXCEPT !.type = "login",
                               !.credentials = op.credentials,
                               !.effects = authApi_rejectionEffects(authApi_login(op.credentials[1], now)),
                               !.result = Some(authApi_login(op.credentials[1], now))]
    /\ UNCHANGED <<now, inflight>>
    /\ UNCHANGED uiVars

\* authApi.logout after its delay.
LogoutDone(op) ==
    /\ op \in pendingAuth /\ op.name = "logout"
    /\ pendingAuth' = pendingAuth \ {op}
    /\ localStorage' = authApi_logout(localStorage)
    /\ last' = [NoEvent EXCEPT !.type = "logout",
                               !.result = Some(AuthResult(TRUE, Undefined, Undefined))]
    /\ UNCHANGED <<location, now, inflight>>
    /\ UNCHANGED uiVars

\* authApi.refreshToken after its delay.
RefreshTokenDone(op) ==
    /\ op \in pendingAuth /\ op.name = "refreshToken"
    /\ pendingAuth' = pendingAuth \ {op}
    /\ localStorage' = StorageAfter(localStorage,
                        authApi_rejectionEffects(authApi_refreshToken(localStorage, now)))
    /\ location' = LocationAfter(location,
                        authApi_rejectionEffects(authApi_refreshToken(localStorage, now)))
    /\ last' = [NoEvent EXCEPT !.type = "refreshToken",
                               !.effects = authApi_rejectionEffects(authApi_refreshToken(localStorage, now)),
                               !.result = Some(authApi_refreshToken(localStorage, now))]
    /\ UNCHANGED <<now, inflight>>
    /\ UNCHANGED uiVars

\* authApi.getCurrentUser after its delay.
GetCurrentUserDone(op) ==
    /\ op \in pendingAuth /\ op.name = "getCurrentUser"
    /\ pendingAuth' = pendingAuth \ {op}
    /\ localStorage' = StorageAfter(localStorage,
                        authApi_rejectionEffects(authApi_getCurrentUser(localStorage)))
    /\ location' = LocationAfter(location,
                        authApi_rejectionEffects(authApi_getCurrentUser(localStorage)))
    /\ last' = [NoEvent EXCEPT !.type = "getCurrentUser",
                               !.effects = authApi_rejectionEffects(authApi_getCurrentUser(localStorage)),
                               !.result = Some(authApi_getCurrentUser(localStorage))]
    /\ UNCHANGED <<now, inflight>>
    /\ UNCHANGED uiVars

Next ==
    \/ Tick
    \/ \E path \in Routes : Navigate(path)
    \/ \E req \in Requests : Dispatch(req)
    \/ \E call \in inflight : Resolve(call)
    \/ \E call \in inflight, error \in SessionErrors : Reject(call, error)
    \/ \E op \in AuthOps : AuthStart(op)
    \/ \E op \in pendingAuth : LoginDone(op)
    \/ \E op \in pendingAuth : LogoutDone(op)
    \/ \E op \in pendingAuth : RefreshTokenDone(op)
    \/ \E op \in pendingAuth : GetCurrentUserDone(op)

Spec == Init /\ [][Next]_vars

\* ------------------------------------------- error classification, all inputs

\* One call in flight, with or without a stored token; the call then fails
\* with any error of ApiErrors.
InitErr ==
    /\ localStorage \in { [authToken |-> t] : t \in {Undefined, Some("dummy-jwt-token-1")} }
    /\ location \in Routes
    /\ now = 1
    /\ inflight \in { {[req |-> r, authorization |-> requestInterceptor(localStorage)]} :
                        r \in Requests }
    /\ pendingAuth = {}
    /\ last = NoEvent
    /\ InitUi

NextErr == \E call \in inflight, error \in ApiErrors : Reject(call, error)

SpecErr == InitErr /\ [][NextErr]_vars

\* ------------------------------------------------ Auth facade, all inputs

\* Every call of the Auth facade, login with every pair of Credentials.
AllAuthOps ==
    { [name |-> "login", credentials |-> Some(c)] : c \in Credentials }
    \cup { [name |-> n, credentials |-> Undefined] :
            n \in {"logout", "refreshToken", "getCurrentUser"} }

\* The login page or the dashboard, with or without a token left from an
\* earlier session.
InitAuth ==
    /\ localStorage \in { [authToken |-> t] : t \in {Undefined, Some("dummy-jwt-token-1")} }
    /\ location \in {"/login", "/dashboard"}
    /\ now = 1
    /\ inflight = {}
    /\ pendingAuth = {}
    /\ last = NoEvent
    /\ InitUi

NextAuth ==
    \/ Tick
    \/ \E op \in AllAuthOps : AuthStart(op)
    \/ \E op \in pendingAuth : LoginDone(op)
    \/ \E op \in pendingAuth : LogoutDone(op)
    \/ \E op \in pendingAuth : RefreshTokenDone(op)
    \/ \E op \in pendingAuth : GetCurrentUserDone(op)

SpecAuth == InitAuth /\ [][NextAuth]_vars

\* --------------------------------------- calls through the core, all errors

\* One error of each failure class: every status with an empty body and with
\* a detail.message body, and every transport and request-setup failure.
FailureClasses ==
    { e \in ApiErrors :
        \/ e.response = Undefined
        \/ e.response[1].data = NoBody
        \/ e.response[1].data =
                Body("object", Some("Employee not found"), Undefined, Undefined,
                     Undefined, <<>>) }

\* Facade calls are issued, answered 2xx, or failed with an error of each
\* failure class.
NextCalls ==
    \/ \E req \in Requests : Dispatch(req)
    \/ \E call \in inflight : Resolve(call)
    \/ \E call \in inflight, error \in FailureClasses : Reject(call, error)

SpecCalls == InitErr /\ [][NextCalls]_vars

\* ------------------------------------------------------------------ claims

\* The step just taken rejected a call through the core.
Rejected == last.type = "rejected"
RejectedError == last.error[1]
RejectedWithResponse == Rejected /\ RejectedError.response # Undefined
RejectedStatus == RejectedError.response[1].status
RejectedData == RejectedError.response[1].data

\* C1: for every failing call whose response body holds a non-empty
\* detail.message, whatever the status, the userMessage on the rejected
\* error is detail.message exactly.
C1_DetailMessageIsUserMessage ==
    (RejectedWithResponse /\ HasData(RejectedError)
        /\ Truthy(RejectedData.detailMessage))
    => last.userMessage = Some(RejectedData.detailMessage[1])

\* C2: a call that receives a 401 makes exactly one removal of authToken and
\* exactly one navigation to /login before the error is handed back, whatever
\* the request; afterwards no token is stored and the location is /login.
C2_Exactly_One_Clear_And_Redirect_On_401 ==
    (RejectedWithResponse /\ RejectedStatus = 401)
    => /\ CountOp(last.effects, "removeItem") = 1
       /\ CountOp(last.effects, "setHref") = 1
       /\ \A i \in 1..Len(last.effects) :
            \/ last.effects[i] = [op |-> "removeItem", arg |-> "authToken"]
            \/ last.effects[i] = [op |-> "setHref", arg |-> "/login"]
       /\ localStorage.authToken = Undefined
       /\ location = "/login"

C2_Witness ==
    /\ RejectedWithResponse /\ RejectedStatus = 401
    /\ last.req = Some([method |-> "POST", path |-> "/attendance"])
    /\ \E call \in inflight : call.authorization # Undefined

\* C3: every failing call through the core is rejected with an error that
\* carries a non-empty userMessage.
C3_Every_Failure_Has_UserMessage ==
    Rejected => (last.userMessage # Undefined /\ last.userMessage[1] # "")

\* C4: a failure with no response carries "Request timeout. Please try
\* again." for code ECONNABORTED, "Network error. Please check your
\* connection." for code ERR_NETWORK, and otherwise the raw transport error
\* message or the generic fallback.
C4_No_Response_Messages ==
    (Rejected /\ RejectedError.response = Undefined)
    => last.userMessage =
        Some(IF RejectedError.code = Some("ECONNABORTED")
                THEN "Request timeout. Please try again."
             ELSE IF RejectedError.code = Some("ERR_NETWORK")
                THEN "Network error. Please check your connection."
             ELSE IF RejectedError.message # "" THEN RejectedError.message
             ELSE "An unexpected error occurred. Please try again.")

\* C5: for status 403, 404, 422 and 500 the userMessage is the result of the
\* precedence chain (detail.message, message, error, flattened errors, array
\* body, status table); a 404 whose body has none of those fields carries
\* exactly "Resource not found.".
C5_Same_Chain_For_403_404_422_500 ==
    (RejectedWithResponse /\ RejectedStatus \in {403, 404, 422, 500})
    => /\ last.userMessage = Some(handleApiError(RejectedError))
       /\ (RejectedStatus = 404 /\ ~HasData(RejectedError))
            => last.userMessage = Some("Resource not found.")

\* The step from the current state to the next one rejected a call with a
\* failure other than a 401 response.
RejectsOtherThan401 ==
    /\ last'.type = "rejected"
    /\ \/ last'.error[1].response = Undefined
       \/ last'.error[1].response[1].status # 401

Rejects401 ==
    /\ last'.type = "rejected"
    /\ last'.error[1].response # Undefined
    /\ last'.error[1].response[1].status = 401

LogsOut == last'.type = "logout"

LogsIn == last'.type = "login" /\ last'.result[1].ok

\* C6: a call failing with a status other than 401, or with a transport
\* failure, leaves the stored authToken and the location unchanged; the
\* stored token is removed only by a 401 response or a logout (and written
\* only by a successful login).
C6_Only_401_Or_Logout_Clears_Token ==
    [][ /\ RejectsOtherThan401
            => (localStorage' = localStorage /\ location' = location)
        /\ (localStorage.authToken # Undefined /\ localStorage'.authToken = Undefined)
            => (Rejects401 \/ LogsOut)
        /\ (localStorage'.authToken # localStorage.authToken
                /\ localStorage'.authToken # Undefined)
            => LogsIn ]_vars

C6_Witness ==
    /\ RejectedWithResponse /\ RejectedStatus = 500
    /\ localStorage.authToken # Undefined
    /\ location = "/employees"

\* The joined messages of the errors mappings, written out.
ExpectedErrorsMessage(mapping) ==
    CASE mapping = <<>> -> ""
      [] mapping = << [field |-> "email", msgs |-> <<"Invalid email">>] >> ->
            "Invalid email"
      [] mapping = << [field |-> "employee_id", msgs |-> <<"Required", "Too short">>],
                      [field |-> "email", msgs |-> <<"Invalid email">>] >> ->
            "Required, Too short, Invalid email"

C8_Header_From_Token_At_Dispatch ==
    [][ last'.type = "dispatch"
        => /\ last'.authorization =
                (IF localStorage.authToken # Undefined
                    THEN Some("Bearer " \o localStorage.authToken[1])
                    ELSE Undefined)
           /\ [req |-> last'.req[1], authorization |-> last'.authorization]
                \in inflight' \ inflight ]_vars

C8_Witness ==
    /\ last.type = "dispatch"
    /\ last.authorization = Some("Bearer dummy-jwt-token-2")
    /\ \E call \in inflight : call.authorization = Some("Bearer dummy-jwt-token-1")

\* C9: a 401 response or a completed logout leaves no token stored; an
\* absent token stays absent until a successful login; a request dispatched
\* while it is absent carries no bearer credential.
C9_Cleared_Until_Next_Login ==
    [][ /\ (Rejects401 \/ LogsOut) => localStorage'.authToken = Undefined
        /\ (localStorage.authToken = Undefined /\ localStorage'.authToken # Undefined)
            => LogsIn
        /\ (last'.type = "dispatch" /\ localStorage.authToken = Undefined)
            => last'.authorization = Undefined ]_vars

C9_Witness ==
    /\ last.type = "logout"
    /\ localStorage.authToken = Undefined
    /\ \E call \in inflight : call.authorization # Undefined

\* C10: after a successful login the token it returned is the value stored
\* under authToken.
C10_Login_Stores_Returned_Token ==
    (last.type = "login" /\ last.result[1].ok)
    => (last.result[1].token # Undefined
        /\ localStorage.authToken = last.result[1].token)

C10_Witness ==
    /\ last.type = "login" /\ last.result[1].ok
    /\ localStorage.authToken = Some("dummy-jwt-token-2")

\* C11: authApi.login succeeds and returns a token if and only if the
\* credentials are exactly email "admin@hrms.com" and password "admin123";
\* every other pair is rejected with a status-401-shaped error whose
\* detail.code is "INVALID_CREDENTIALS".
C11_Login_Iff_Demo_Pair ==
    (last.type = "login")
    => /\ last.result[1].ok
            <=> (last.credentials[1].email = "admin@hrms.com"
                 /\ last.credentials[1].password = "admin123")
       /\ last.result[1].ok
            => (last.result[1].token # Undefined /\ last.result[1].thrown = Undefined)
       /\ ~last.result[1].ok
            => /\ last.result[1].token = Undefined
               /\ last.result[1].thrown # Undefined
               /\ last.result[1].thrown[1].status = Some(401)
               /\ last.result[1].thrown[1].code = Some("INVALID_CREDENTIALS")

C11_Witness ==
    /\ last.type = "login"
    /\ last.credentials = Some([email |-> "admin@hrms.com", password |-> "admin123 "])
    /\ ~last.result[1].ok
    /\ last.result[1].thrown[1].code = Some("INVALID_CREDENTIALS")

\* The step from the current state to the next one is a facade call's dispatch.
Dispatches == last'.type = "dispatch"

\* C12: for every failure class a facade invocation issues exactly one
\* request, and its rejection takes that request out of flight without
\* issuing another; a request is issued only by a facade invocation.
C12_No_Automatic_Retry ==
    [][ /\ Dispatches => Cardinality(inflight') = Cardinality(inflight) + 1
        /\ last'.type = "rejected"
            => (inflight' \subseteq inflight
                /\ Cardinality(inflight') = Cardinality(inflight) - 1)
        /\ ~(inflight' \subseteq inflight) => Dispatches ]_vars

C12_Witness ==
    /\ Rejected
    /\ RejectedError.code = Some("ERR_NETWORK")
    /\ inflight = {}

\* ---------------------------------------------------- dashboard statistics

MaxEmployees == 2
MaxRecords == 2

\* slice(0, 5) of the top performers and slice(0, 10) of the recent activity.
TopN == 5
RecentN == 10

\* All sequences over S of length at most n.
SeqsUpTo(S, n) == UNION { [1..k -> S] : k \in 0..n }

Employee(employee_id, full_name, department) ==
    [employee_id |-> employee_id, full_name |-> full_name, department |-> department]

AttendanceRecord(id, employee_id, attendance_date, status, created_at) ==
    [id |-> id, employee_id |-> employee_id, attendance_date |-> attendance_date,
     status |-> status, created_at |-> created_at]

\* new Date(s).getTime() of the date strings of the model, in hours since
\* 2024-01-01T00:00Z.
DateTime(s) ==
    CASE s = "2024-01-01" -> 0
      [] s = "2024-01-01T08:30:00Z" -> 8
      [] s = "2024-01-02" -> 24
      [] s = "2024-01-03" -> 48

\* A property key is an integer index when it is the canonical decimal form
\* of a number: digits only, no leading zero.
Digits == {"0", "1", "2", "3", "4", "5", "6", "7", "8", "9"}

DigitValue(c) ==
    CASE c = "0" -> 0 [] c = "1" -> 1 [] c = "2" -> 2 [] c = "3" -> 3
      [] c = "4" -> 4 [] c = "5" -> 5 [] c = "6" -> 6 [] c = "7" -> 7
      [] c = "8" -> 8 [] c = "9" -> 9

IsIntegerKey(key) ==
    /\ Len(key) > 0
    /\ \A i \in 1..Len(key) : SubSeq(key, i, i) \in Digits
    /\ (Len(key) = 1 \/ SubSeq(key, 1, 1) # "0")

RECURSIVE KeyNumber(_)
KeyNumber(key) ==
    IF Len(key) = 0 THEN 0
    ELSE 10 * KeyNumber(SubSeq(key, 1, Len(key) - 1))
         + DigitValue(SubSeq(key, Len(key), Len(key)))

\* A JavaScript object used as a map: its entries [key, value] in the order
\* the keys were first assigned.
RECURSIVE ObjGet(_, _, _)
ObjGet(obj, key, default) ==
    IF obj = <<>> THEN default
    ELSE IF obj[1].key = key THEN obj[1].value
    ELSE ObjGet(Tail(obj), key, default)

ObjHas(obj, key) == \E i \in 1..Len(obj) : obj[i].key = key

ObjPut(obj, key, value) ==
    IF ObjHas(obj, key)
        THEN [i \in 1..Len(obj) |->
                IF obj[i].key = key THEN [key |-> key, value |-> value] ELSE obj[i]]
        ELSE Append(obj, [key |-> key, value |-> value])

\* Array.prototype.sort with a comparator b.rank - a.rank: a stable sort,
\* the greater rank first.  x is placed after every element of rank >= its own.
RECURSIVE InsertByRank(_, _)
InsertByRank(x, sorted) ==
    IF sorted = <<>> THEN <<x>>
    ELSE IF sorted[1].rank < x.rank THEN <<x>> \o sorted
    ELSE <<sorted[1]>> \o InsertByRank(x, Tail(sorted))

RECURSIVE SortByRank(_)
SortByRank(items) ==
    IF items = <<>> THEN <<>>
    ELSE InsertByRank(items[Len(items)], SortByRank(SubSeq(items, 1, Len(items) - 1)))

\* array.slice(0, n).
Slice0(items, n) == SubSeq(items, 1, IF Len(items) < n THEN Len(items) ELSE n)

\* Object.entries(obj): integer keys first in ascending numeric order, then
\* the other keys in the order they were first assigned.
ObjectEntries(obj) ==
    LET ints == SelectSeq(obj, LAMBDA e : IsIntegerKey(e.key))
        strs == SelectSeq(obj, LAMBDA e : ~IsIntegerKey(e.key))
        ranked == [i \in 1..Len(ints) |->
                    [rank |-> 0 - KeyNumber(ints[i].key), item |-> ints[i]]]
        sorted == SortByRank(ranked)
    IN [i \in 1..Len(sorted) |-> sorted[i].item] \o strs

\* attendanceRecords.filter(record => record.status === s).length
CountStatus(records, s) ==
    Cardinality({ i \in 1..Len(records) : records[i].status = s })

\* Mutant: records of every status are counted.
RECURSIVE presentDaysByEmployee_AnyStatus(_)
presentDaysByEmployee_AnyStatus(records) ==
    IF records = <<>> THEN <<>>
    ELSE LET acc == presentDaysByEmployee_AnyStatus(SubSeq(records, 1, Len(records) - 1))
             record == records[Len(records)]
         IN ObjPut(acc, record.employee_id, ObjGet(acc, record.employee_id, 0) + 1)

\* presentDaysByEmployee: attendanceRecords.reduce(...) counting the PRESENT
\* records of each employee_id.
RECURSIVE presentDaysByEmployee(_)
presentDaysByEmployee(records) ==
    IF records = <<>> THEN <<>>
    ELSE LET acc == presentDaysByEmployee(SubSeq(records, 1, Len(records) - 1))
             record == records[Len(records)]
         IN IF record.status = "PRESENT"
                THEN ObjPut(acc, record.employee_id,
                            ObjGet(acc, record.employee_id, 0) + 1)
                ELSE acc

\* employees.find(emp => emp.employee_id === employeeId)
RECURSIVE FindEmployee(_, _)
FindEmployee(employees, employeeId) ==
    IF employees = <<>> THEN Undefined
    ELSE IF employees[1].employee_id = employeeId THEN Some(employees[1])
    ELSE FindEmployee(Tail(employees), employeeId)

\* employee?.field || 'Unknown'
OrUnknown(employee, field) ==
    IF employee # Undefined /\ employee[1][field] # "" THEN employee[1][field]
    ELSE "Unknown"

\* topPerformers: Object.entries(presentDaysByEmployee).map(...).sort(...).slice(0, 5)
topPerformers(employees, records) ==
    LET entries == ObjectEntries(presentDaysByEmployee(records))
        mapped == [i \in 1..Len(entries) |->
            [rank |-> entries[i].value,
             item |-> [employeeId |-> entries[i].key,
                       employeeName |-> OrUnknown(FindEmployee(employees, entries[i].key), "full_name"),
                       department |-> OrUnknown(FindEmployee(employees, entries[i].key), "department"),
                       presentDays |-> entries[i].value]]]
        sorted == SortByRank(mapped)
    IN Slice0([i \in 1..Len(sorted) |-> sorted[i].item], TopN)

\* Mutant: an employee of a department already seen is not counted.
RECURSIVE departmentStats_FirstOnly(_, _)
departmentStats_FirstOnly(employees, records) ==
    IF employees = <<>> THEN <<>>
    ELSE LET acc == departmentStats_FirstOnly(SubSeq(employees, 1, Len(employees) - 1), records)
             employee == employees[Len(employees)]
             dept == employee.department
             days == ObjGet(presentDaysByEmployee(records), employee.employee_id, 0)
         IN IF ObjHas(acc, dept) THEN acc
            ELSE ObjPut(acc, dept, [total |-> 1, presentDays |-> days])

\* Mutant: a department's entry is created with total 1 before the increment.
RECURSIVE departmentStats_CountsFromOne(_, _)
departmentStats_CountsFromOne(employees, records) ==
    IF employees = <<>> THEN <<>>
    ELSE LET acc == departmentStats_CountsFromOne(SubSeq(employees, 1, Len(employees) - 1), records)
             employee == employees[Len(employees)]
             dept == employee.department
             old == ObjGet(acc, dept, [total |-> 1, presentDays |-> 0])
             days == ObjGet(presentDaysByEmployee(records), employee.employee_id, 0)
         IN ObjPut(acc, dept, [total |-> old.total + 1,
                               presentDays |-> old.presentDays + days])

\* departmentStats: employees.reduce(...) into {dept: {total, presentDays}}.
RECURSIVE departmentStats(_, _)
departmentStats(employees, records) ==
    IF employees = <<>> THEN <<>>
    ELSE LET acc == departmentStats(SubSeq(employees, 1, Len(employees) - 1), records)
             employee == employees[Len(employees)]
             dept == employee.department
             old == ObjGet(acc, dept, [total |-> 0, presentDays |-> 0])
             days == ObjGet(presentDaysByEmployee(records), employee.employee_id, 0)
         IN ObjPut(acc, dept, [total |-> old.total + 1,
                               presentDays |-> old.presentDays + days])

\* Mutant: created_at is ignored.
RecencyKey_DateOnly(record) == DateTime(record.attendance_date)

\* new Date(r.created_at || r.attendance_date).getTime()
RecencyKey(record) ==
    DateTime(IF Truthy(record.created_at) THEN record.created_at[1]
             ELSE record.attendance_date)

\* attendanceRecords.sort((a, b) => key(b) - key(a)): the array itself,
\* reordered in place, newest first.
SortedByRecency(records) ==
    LET ranked == [i \in 1..Len(records) |->
                    [rank |-> RecencyKey(records[i]), item |-> records[i]]]
        sorted == SortByRank(ranked)
    IN [i \in 1..Len(sorted) |-> sorted[i].item]

\* ------------------------------------------------------------ DashboardPage

\* err.userMessage || err.message || fallback, on the error as the response
\* interceptor hands it back.
ErrorMessageOr(error, fallback) ==
    IF Truthy(responseUserMessage(error)) THEN responseUserMessage(error)[1]
    ELSE IF error.message # "" THEN error.message
    ELSE fallback

E1 == Employee("E1", "Asha Rao", "Engineering")
E2 == Employee("E2", "", "Engineering")
E7 == Employee("7", "Li Wei", "HR")

R1 == AttendanceRecord(1, "E1", "2024-01-01", "PRESENT", Undefined)
R2 == AttendanceRecord(2, "E2", "2024-01-02", "PRESENT", Undefined)
R3 == AttendanceRecord(3, "7", "2024-01-01", "ABSENT", Some("2024-01-01T08:30:00Z"))
R4 == AttendanceRecord(4, "10", "2024-01-03", "PRESENT", Undefined)

\* What the two list calls of the dashboard can be answered with.
DashEmployeeLists == { <<>>, <<E1>>, <<E1, E2>> }
DashRecordLists == { <<>>, <<R1>>, <<R1, R2>> }
DashErrors ==
    { ResponseError(500, "", NoBody),
      ResponseError(401, "", NoBody),
      AxiosError(Undefined, TRUE, Some("ERR_NETWORK"), "Network Error"),
      AxiosError(Undefined, FALSE, Undefined, "") }

\* What a render shows.
DashView(screen, message, employees, records) ==
    [screen |-> screen, error |-> message,
     totalEmployees |-> Len(employees),
     totalAttendanceRecords |-> Len(records),
     totalPresentDays |-> CountStatus(records, "PRESENT"),
     totalAbsentDays |-> CountStatus(records, "ABSENT"),
     presentDaysByEmployee |-> presentDaysByEmployee(records),
     topPerformers |-> topPerformers(employees, records),
     departmentStats |-> departmentStats(employees, records),
     recentActivity |-> IF screen = "dashboard"
                           THEN Slice0(SortedByRecency(records), RecentN)
                           ELSE <<>>]

\* The mount effect: fetchDashboardData sets the loading state and issues
\* both list calls inside one Promise.all.
DashMount ==
    /\ dashboard.employeesCall = "idle"
    /\ dashboard' = [dashboard EXCEPT !.isLoading = TRUE, !.error = "",
                                      !.employeesCall = "pending",
                                      !.attendanceCall = "pending"]
    /\ last' = [NoEvent EXCEPT !.type = "dashMount",
                               !.authorization = requestInterceptor(localStorage)]
    /\ UNCHANGED <<sessionVars, addEmployee, markAttendance, attendanceView, employeeList>>

\* Mutant: each list is set as soon as its own call is answered.
DashJoin_Partial(d) ==
    IF d.settled THEN d
    ELSE [d EXCEPT !.settled = (d.employeesCall = "fulfilled" /\ d.attendanceCall = "fulfilled"),
                   !.isLoading = ~(d.employeesCall = "fulfilled" /\ d.attendanceCall = "fulfilled"),
                   !.employees = IF d.employeesData # Undefined
                                    THEN d.employeesData[1] ELSE @,
                   !.attendanceRecords = IF d.attendanceData # Undefined
                                            THEN d.attendanceData[1] ELSE @]

\* The continuation of fetchDashboardData after Promise.all: with both
\* calls fulfilled the two lists are set, and the loading state ends.  (A
\* rejection is handled by DashCatch.)  Before that, and once the function
\* has completed, an answer changes nothing.
DashJoin(d) ==
    IF d.settled THEN d
    ELSE IF d.employeesCall = "fulfilled" /\ d.attendanceCall = "fulfilled"
        THEN [d EXCEPT !.settled = TRUE, !.isLoading = FALSE,
                       !.employees = d.employeesData[1],
                       !.attendanceRecords = d.attendanceData[1]]
    ELSE d

\* catch and finally of fetchDashboardData: Promise.all rejects with the
\* first rejection; later answers are dropped.
DashCatch(d, error) ==
    IF d.settled THEN d
    ELSE [d EXCEPT !.settled = TRUE, !.isLoading = FALSE,
                   !.error = ErrorMessageOr(error, "Failed to fetch dashboard data")]

\* employeeApi.getEmployees() is answered with a list.
DashEmployeesArrive(data) ==
    /\ dashboard.employeesCall = "pending"
    /\ dashboard' = DashJoin([dashboard EXCEPT !.employeesCall = "fulfilled",
                                               !.employeesData = Some(data)])
    /\ last' = [NoEvent EXCEPT !.type = "dashAnswer"]
    /\ UNCHANGED <<sessionVars, addEmployee, markAttendance, attendanceView, employeeList>>

\* attendanceApi.getAllAttendance() is answered with a list.
DashAttendanceArrive(data) ==
    /\ dashboard.attendanceCall = "pending"
    /\ dashboard' = DashJoin([dashboard EXCEPT !.attendanceCall = "fulfilled",
                                               !.attendanceData = Some(data)])
    /\ last' = [NoEvent EXCEPT !.type = "dashAnswer"]
    /\ UNCHANGED <<sessionVars, addEmployee, markAttendance, attendanceView, employeeList>>

\* One of the two calls fails: the response interceptor runs, then the
\* rejection reaches Promise.all.
DashFail(which, error) ==
    /\ dashboard[which] = "pending"
    /\ dashboard' = DashCatch([dashboard EXCEPT ![which] = "rejected"], error)
    /\ localStorage' = StorageAfter(localStorage, responseSideEffects(error))
    /\ location' = LocationAfter(location, responseSideEffects(error))
    /\ last' = [NoEvent EXCEPT !.type = "dashFailure", !.error = Some(error),
                               !.userMessage = responseUserMessage(error),
                               !.effects = responseSideEffects(error)]
    /\ UNCHANGED <<now, inflight, pendingAuth, addEmployee, markAttendance, attendanceView, employeeList>>

\* A render of DashboardPage: the statistics are computed from the state,
\* then the loading screen, the error screen or the dashboard is returned.
\* The dashboard's recent-activity table calls attendanceRecords.sort(...)
\* on the array held in state.
DashRender ==
    /\ dashboard.employeesCall # "idle"
    /\ LET screen == IF dashboard.isLoading THEN "loading"
                     ELSE IF dashboard.error # "" THEN "error"
                     ELSE "dashboard"
       IN dashboard' =
            [dashboard EXCEPT
                !.view = Some(DashView(screen, dashboard.error,
                                       dashboard.employees,
                                       dashboard.attendanceRecords)),
                !.attendanceRecords =
                    IF screen = "dashboard" THEN SortedByRecency(@) ELSE @]
    /\ last' = [NoEvent EXCEPT !.type = "dashRender"]
    /\ UNCHANGED <<sessionVars, addEmployee, markAttendance, attendanceView, employeeList>>

\* The error screen's retry: window.location.reload() starts the page anew.
DashReload ==
    /\ dashboard.view # Undefined
    /\ dashboard.view[1].screen = "error"
    /\ dashboard' = DashboardInitial
    /\ last' = [NoEvent EXCEPT !.type = "dashReload"]
    /\ UNCHANGED <<sessionVars, addEmployee, markAttendance, attendanceView, employeeList>>

\* The dashboard route just opened by a signed-in user.
InitDash ==
    /\ localStorage = [authToken |-> Some("dummy-jwt-token-1")]
    /\ location = "/dashboard"
    /\ now = 1
    /\ inflight = {}
    /\ pendingAuth = {}
    /\ last = NoEvent
    /\ InitUi

NextDash ==
    \/ DashMount
    \/ \E data \in DashEmployeeLists : DashEmployeesArrive(data)
    \/ \E data \in DashRecordLists : DashAttendanceArrive(data)
    \/ \E which \in {"employeesCall", "attendanceCall"}, error \in DashErrors :
            DashFail(which, error)
    \/ DashRender
    \/ DashReload

SpecDash == InitDash /\ [][NextDash]_vars

\* ---- the statistics as functions of the two loaded lists

\* Seven employees of whom two have numeric ids, in an order of first
\* appearance; each is present once or twice.
ManyIds == << "E1", "10", "E2", "7", "E3", "E4", "E5" >>

Reversed(seq) == [i \in 1..Len(seq) |-> seq[Len(seq) + 1 - i]]

ManyRecords(ids, twice) ==
    LET first == [i \in 1..Len(ids) |->
                    AttendanceRecord(i, ids[i], "2024-01-01", "PRESENT", Undefined)]
        again == SelectSeq(
                    [i \in 1..Len(ids) |->
                        AttendanceRecord(Len(ids) + i, ids[i], "2024-01-02", "PRESENT", Undefined)],
                    LAMBDA r : r.employee_id \in twice)
    IN first \o again

EmployeePool == {E1, E2, E7}
RecordPool == {R1, R2, R3, R4}

StatsEmployeeLists == SeqsUpTo(EmployeePool, MaxEmployees)

StatsRecordLists ==
    SeqsUpTo(RecordPool, MaxRecords)
    \cup { ManyRecords(ids, twice) :
            ids \in {ManyIds, Reversed(ManyIds)},
            twice \in SUBSET {"E1", "10", "7", "E3", "E5"} }

\* The dashboard with both lists loaded, for every pair of lists.
InitStats ==
    /\ localStorage = [authToken |-> Some("dummy-jwt-token-1")]
    /\ location = "/dashboard"
    /\ now = 1
    /\ inflight = {}
    /\ pendingAuth = {}
    /\ last = NoEvent
    /\ addEmployee = AddEmployeeInitial
    /\ markAttendance = MarkAttendanceInitial
    /\ attendanceView = AttendanceViewInitial
    /\ employeeList = EmployeeListInitial
    /\ \E employees \in StatsEmployeeLists, records \in StatsRecordLists :
        dashboard = [DashboardInitial EXCEPT
                        !.employeesCall = "fulfilled", !.attendanceCall = "fulfilled",
                        !.employeesData = Some(employees),
                        !.attendanceData = Some(records),
                        !.employees = employees, !.attendanceRecords = records,
                        !.isLoading = FALSE, !.settled = TRUE]

NextStats == DashRender

SpecStats == InitStats /\ [][NextStats]_vars

\* -------------------------------------------------------------- strings

Whitespace == {" ", "\t", "\n"}

\* String.prototype.trim().
RECURSIVE Trim(_)
Trim(s) ==
    IF Len(s) = 0 THEN s
    ELSE IF SubSeq(s, 1, 1) \in Whitespace THEN Trim(SubSeq(s, 2, Len(s)))
    ELSE IF SubSeq(s, Len(s), Len(s)) \in Whitespace THEN Trim(SubSeq(s, 1, Len(s) - 1))
    ELSE s

UpperCase == "ABCDEFGHIJKLMNOPQRSTUVWXYZ"
LowerCase == "abcdefghijklmnopqrstuvwxyz"

\* The lower-case letter of each upper-case letter.
LowerTable ==
    [c \in { SubSeq(UpperCase, i, i) : i \in 1..Len(UpperCase) } |->
        LET i == CHOOSE i \in 1..Len(UpperCase) : SubSeq(UpperCase, i, i) = c
        IN SubSeq(LowerCase, i, i)]

LowerChar(c) == IF c \in DOMAIN LowerTable THEN LowerTable[c] ELSE c

\* String.prototype.toLowerCase().
RECURSIVE ToLowerCase(_)
ToLowerCase(s) ==
    IF Len(s) = 0 THEN s
    ELSE LowerChar(SubSeq(s, 1, 1)) \o ToLowerCase(SubSeq(s, 2, Len(s)))

\* String.prototype.includes(sub).
Includes(s, sub) ==
    \E i \in 1..(Len(s) - Len(sub) + 1) : SubSeq(s, i, i + Len(sub) - 1) = sub

\* [^\s@]+ : a non-empty run without whitespace and without "@".
IsLocalRun(s) ==
    /\ Len(s) > 0
    /\ \A i \in 1..Len(s) : SubSeq(s, i, i) \notin (Whitespace \cup {"@"})

\* /^[^\s@]+@[^\s@]+\.[^\s@]+$/.test(s)
EmailTest(s) ==
    \E i \in 1..Len(s), j \in 1..Len(s) :
        /\ i < j
        /\ SubSeq(s, i, i) = "@"
        /\ SubSeq(s, j, j) = "."
        /\ IsLocalRun(SubSeq(s, 1, i - 1))
        /\ IsLocalRun(SubSeq(s, i + 1, j - 1))
        /\ IsLocalRun(SubSeq(s, j + 1, Len(s)))

\* ------------------------------------------------------------------ forms

\* Object.keys(newErrors).length === 0
NoFieldErrors(errors) == \A k \in DOMAIN errors : errors[k] = Undefined

DetailBody(message) ==
    Body("object", Some(message), Undefined, Undefined, Undefined, <<>>)

\* What a create or mark call can fail with: one error of each failure
\* class, and 400/409 answers whose detail message names a duplicate or
\* an email.
FormErrors ==
    FailureClasses
    \cup { ResponseError(status, "", DetailBody(message)) :
            status \in {400, 409},
            message \in { "Attendance already exists for this date",
                          "DUPLICATE employee id",
                          "Invalid Email address",
                          "Email already exists" } }

\* ---- AddEmployee (on the employees page)

AddFieldValues ==
    [employee_id |-> {"", "  ", "EMP001"},
     full_name |-> {"", "Asha Rao"},
     email |-> {"", " ", "asha@hrms", "a b@hrms.com", "asha@hrms.com"},
     department |-> {"", "Engineering"}]

\* Mutant: the email format is not checked.
AddValidate_NoFormatCheck(formData) ==
    [NoErrors EXCEPT
        !.employee_id = IF Trim(formData.employee_id) = ""
                            THEN Some("Employee ID is required") ELSE Undefined,
        !.full_name = IF Trim(formData.full_name) = ""
                            THEN Some("Full name is required") ELSE Undefined,
        !.email = IF Trim(formData.email) = "" THEN Some("Email is required")
                  ELSE Undefined,
        !.department = IF Trim(formData.department) = ""
                            THEN Some("Department is required") ELSE Undefined]

\* AddEmployee.validateForm: newErrors.
AddValidate(formData) ==
    [NoErrors EXCEPT
        !.employee_id = IF Trim(formData.employee_id) = ""
                            THEN Some("Employee ID is required") ELSE Undefined,
        !.full_name = IF Trim(formData.full_name) = ""
                            THEN Some("Full name is required") ELSE Undefined,
        !.email = IF Trim(formData.email) = "" THEN Some("Email is required")
                  ELSE IF ~EmailTest(formData.email)
                    THEN Some("Please enter a valid email")
                  ELSE Undefined,
        !.department = IF Trim(formData.department) = ""
                            THEN Some("Department is required") ELSE Undefined]

\* AddEmployee.handleInputChange.
AddChange(name, value) ==
    /\ location = "/employees"
    /\ addEmployee.formData[name] # value
    /\ addEmployee' =
        [addEmployee EXCEPT
            !.formData[name] = value,
            !.errors[name] = IF Truthy(@) THEN Undefined ELSE @]
    /\ last' = [NoEvent EXCEPT !.type = "addChange"]
    /\ UNCHANGED <<sessionVars, dashboard, markAttendance, attendanceView, employeeList>>

\* AddEmployee.handleSubmit up to the await: validateForm, and when it
\* passes the loading state and the POST /employees call.
AddSubmit ==
    LET newErrors == AddValidate(addEmployee.formData)
        request == [method |-> "POST", path |-> "/employees",
                    data |-> addEmployee.formData,
                    authorization |-> requestInterceptor(localStorage)]
    IN
    /\ location = "/employees"
    /\ ~addEmployee.isLoading
    /\ addEmployee' =
        IF NoFieldErrors(newErrors)
            THEN [addEmployee EXCEPT !.errors = newErrors, !.isLoading = TRUE,
                                     !.successMessage = "",
                                     !.request = Some(request)]
            ELSE [addEmployee EXCEPT !.errors = newErrors]
    /\ last' = [NoEvent EXCEPT !.type = "addSubmit",
                               !.result = Some(newErrors),
                               !.req = IF NoFieldErrors(newErrors)
                                        THEN Some(request) ELSE Undefined]
    /\ UNCHANGED <<sessionVars, dashboard, markAttendance, attendanceView, employeeList>>

\* AddEmployee.handleSubmit after the await, the call fulfilled.
AddSuccess ==
    /\ addEmployee.request # Undefined
    /\ addEmployee' =
        [addEmployee EXCEPT
            !.successMessage = "Employee added successfully!",
            !.formData = AddEmployeeInitial.formData,
            !.errors = NoErrors, !.added = TRUE,
            !.isLoading = FALSE, !.request = Undefined]
    /\ last' = [NoEvent EXCEPT !.type = "addSuccess"]
    /\ UNCHANGED <<sessionVars, dashboard, markAttendance, attendanceView, employeeList>>

\* Mutant: the email test comes first.
AddCatch_EmailFirst(errorMessage) ==
    IF Includes(ToLowerCase(errorMessage), "email")
        THEN [NoErrors EXCEPT !.email = Some(errorMessage)]
    ELSE IF \/ Includes(ToLowerCase(errorMessage), "duplicate")
            \/ Includes(ToLowerCase(errorMessage), "already exists")
        THEN [NoErrors EXCEPT !.employee_id = Some(errorMessage)]
    ELSE [NoErrors EXCEPT !.submit = Some(errorMessage)]

\* The errors AddEmployee.handleSubmit's catch sets for a message.
AddCatch(errorMessage) ==
    IF \/ Includes(ToLowerCase(errorMessage), "duplicate")
       \/ Includes(ToLowerCase(errorMessage), "already exists")
        THEN [NoErrors EXCEPT !.employee_id = Some(errorMessage)]
    ELSE IF Includes(ToLowerCase(errorMessage), "email")
        THEN [NoErrors EXCEPT !.email = Some(errorMessage)]
    ELSE [NoErrors EXCEPT !.submit = Some(errorMessage)]

\* AddEmployee.handleSubmit after the await, the call rejected: the response
\* interceptor has run on the error.
AddFailure(error) ==
    /\ addEmployee.request # Undefined
    /\ addEmployee' =
        [addEmployee EXCEPT
            !.errors = AddCatch(ErrorMessageOr(error, "Failed to add employee. Please try again.")),
            !.isLoading = FALSE, !.request = Undefined]
    /\ localStorage' = StorageAfter(localStorage, responseSideEffects(error))
    /\ location' = LocationAfter(location, responseSideEffects(error))
    /\ last' = [NoEvent EXCEPT !.type = "addFailure", !.error = Some(error),
                               !.userMessage = responseUserMessage(error),
                               !.effects = responseSideEffects(error)]
    /\ UNCHANGED <<now, inflight, pendingAuth, dashboard, markAttendance, attendanceView, employeeList>>

\* ---- MarkAttendance (on the attendance page)

\* The values its three controls can hand to handleInputChange: the options
\* of the employee select (one of them an employee the server no longer
\* knows), a date input, the options of the status select.
MarkFieldValues ==
    [employee_id |-> {"", "E1", "E404"},
     attendance_date |-> {"", Today, "2024-01-01"},
     status |-> {"PRESENT", "ABSENT"}]

\* MarkAttendance.validateForm: newErrors.
MarkValidate(formData) ==
    [NoErrors EXCEPT
        !.employee_id = IF formData.employee_id = ""
                            THEN Some("Please select an employee") ELSE Undefined,
        !.attendance_date = IF formData.attendance_date = ""
                                THEN Some("Date is required") ELSE Undefined,
        !.status = IF formData.status = ""
                        THEN Some("Status is required") ELSE Undefined]

\* What MarkAttendance's employee fetch can be answered with: no employee,
\* or two of whom the second is deleted on the server afterwards.
MarkEmployeeLists ==
    { <<>>, << E1, Employee("E404", "Former Employee", "Sales") >> }

\* The form is rendered once the employees are loaded and there is one.
MarkFormShown ==
    /\ markAttendance.employeesCall # "idle"
    /\ ~markAttendance.isLoadingEmployees
    /\ markAttendance.employeesError = ""
    /\ markAttendance.employees # <<>>

\* The mount effect: fetchEmployees up to the await.
MarkMount ==
    /\ location = "/attendance"
    /\ markAttendance.employeesCall = "idle"
    /\ markAttendance' = [markAttendance EXCEPT !.employeesCall = "pending",
                                                !.isLoadingEmployees = TRUE,
                                                !.employeesError = ""]
    /\ last' = [NoEvent EXCEPT !.type = "markMount"]
    /\ UNCHANGED <<sessionVars, dashboard, addEmployee, attendanceView, employeeList>>

\* fetchEmployees after the await, fulfilled.
MarkEmployeesArrive(data) ==
    /\ markAttendance.employeesCall = "pending"
    /\ markAttendance' = [markAttendance EXCEPT !.employeesCall = "fulfilled",
                                                !.employees = data,
                                                !.isLoadingEmployees = FALSE]
    /\ last' = [NoEvent EXCEPT !.type = "markEmployees"]
    /\ UNCHANGED <<sessionVars, dashboard, addEmployee, attendanceView, employeeList>>

\* What the employee fetch can fail with: a server error without a body,
\* a 400 whose body has a message, a connectivity failure.
MarkEmployeeErrors ==
    { ResponseError(500, "", NoBody),
      ResponseError(400, "", Body("object", Undefined, Some("Bad input"), Undefined,
                                  Undefined, <<>>)),
      AxiosError(Undefined, TRUE, Some("ERR_NETWORK"), "Network Error") }

\* err.response?.data?.message || 'Failed to fetch employees. Please try again.'
MarkEmployeesMessage(error) ==
    IF HasData(error) /\ Truthy(error.response[1].data.message)
        THEN error.response[1].data.message[1]
        ELSE "Failed to fetch employees. Please try again."

\* fetchEmployees after the await, rejected.
MarkEmployeesFail(error) ==
    /\ markAttendance.employeesCall = "pending"
    /\ markAttendance' =
        [markAttendance EXCEPT !.employeesCall = "rejected",
                               !.isLoadingEmployees = FALSE,
                               !.employeesError = MarkEmployeesMessage(error)]
    /\ localStorage' = StorageAfter(localStorage, responseSideEffects(error))
    /\ location' = LocationAfter(location, responseSideEffects(error))
    /\ last' = [NoEvent EXCEPT !.type = "markEmployeesFailure", !.error = Some(error),
                               !.userMessage = responseUserMessage(error),
                               !.effects = responseSideEffects(error)]
    /\ UNCHANGED <<now, inflight, pendingAuth, dashboard, addEmployee, attendanceView, employeeList>>

\* The employees error screen's retry: fetchEmployees again.
MarkRetryEmployees ==
    /\ location = "/attendance"
    /\ markAttendance.employeesCall = "rejected"
    /\ markAttendance' = [markAttendance EXCEPT !.employeesCall = "pending",
                                                !.isLoadingEmployees = TRUE,
                                                !.employeesError = ""]
    /\ last' = [NoEvent EXCEPT !.type = "markRetryEmployees"]
    /\ UNCHANGED <<sessionVars, dashboard, addEmployee, attendanceView, employeeList>>

\* MarkAttendance.handleInputChange.
MarkChange(name, value) ==
    /\ location = "/attendance"
    /\ MarkFormShown
    /\ name = "employee_id" =>
            (value = "" \/ \E i \in 1..Len(markAttendance.employees) :
                                markAttendance.employees[i].employee_id = value)
    /\ markAttendance.formData[name] # value
    /\ markAttendance' =
        [markAttendance EXCEPT
            !.formData[name] = value,
            !.errors[name] = IF Truthy(@) THEN Undefined ELSE @]
    /\ last' = [NoEvent EXCEPT !.type = "markChange"]
    /\ UNCHANGED <<sessionVars, dashboard, addEmployee, attendanceView, employeeList>>

\* MarkAttendance.handleSubmit up to the await.
MarkSubmit ==
    LET newErrors == MarkValidate(markAttendance.formData)
        request == [method |-> "POST", path |-> "/attendance",
                    data |-> markAttendance.formData,
                    authorization |-> requestInterceptor(localStorage)]
    IN
    /\ location = "/attendance"
    /\ MarkFormShown
    /\ ~markAttendance.isLoading
    /\ markAttendance' =
        IF NoFieldErrors(newErrors)
            THEN [markAttendance EXCEPT !.errors = newErrors, !.isLoading = TRUE,
                                        !.successMessage = "",
                                        !.request = Some(request)]
            ELSE [markAttendance EXCEPT !.errors = newErrors]
    /\ last' = [NoEvent EXCEPT !.type = "markSubmit",
                               !.result = Some(newErrors),
                               !.req = IF NoFieldErrors(newErrors)
                                        THEN Some(request) ELSE Undefined]
    /\ UNCHANGED <<sessionVars, dashboard, addEmployee, attendanceView, employeeList>>

\* MarkAttendance.handleSubmit after the await, the call fulfilled.
MarkSuccess ==
    /\ markAttendance.request # Undefined
    /\ markAttendance' =
        [markAttendance EXCEPT
            !.successMessage = "Attendance marked successfully!",
            !.formData = MarkAttendanceInitial.formData,
            !.errors = NoErrors, !.marked = TRUE,
            !.isLoading = FALSE, !.request = Undefined]
    /\ last' = [NoEvent EXCEPT !.type = "markSuccess"]
    /\ UNCHANGED <<sessionVars, dashboard, addEmployee, attendanceView, employeeList>>

\* The errors MarkAttendance.handleSubmit's catch sets for a message.
MarkCatch(errorMessage) ==
    IF \/ Includes(ToLowerCase(errorMessage), "duplicate")
       \/ Includes(ToLowerCase(errorMessage), "already exists")
        THEN [NoErrors EXCEPT
                !.submit = Some("Attendance for this employee on this date already exists.")]
    ELSE IF Includes(ToLowerCase(errorMessage), "employee")
        THEN [NoErrors EXCEPT !.employee_id = Some(errorMessage)]
    ELSE [NoErrors EXCEPT !.submit = Some(errorMessage)]

\* MarkAttendance.handleSubmit after the await, the call rejected.
MarkFailure(error) ==
    /\ markAttendance.request # Undefined
    /\ markAttendance' =
        [markAttendance EXCEPT
            !.errors = MarkCatch(ErrorMessageOr(error, "Failed to mark attendance. Please try again.")),
            !.isLoading = FALSE, !.request = Undefined]
    /\ localStorage' = StorageAfter(localStorage, responseSideEffects(error))
    /\ location' = LocationAfter(location, responseSideEffects(error))
    /\ last' = [NoEvent EXCEPT !.type = "markFailure", !.error = Some(error),
                               !.userMessage = responseUserMessage(error),
                               !.effects = responseSideEffects(error)]
    /\ UNCHANGED <<now, inflight, pendingAuth, dashboard, addEmployee, attendanceView, employeeList>>

\* One of the two pages that hold a form, just opened by a signed-in user.
InitForms ==
    /\ localStorage = [authToken |-> Some("dummy-jwt-token-1")]
    /\ location \in {"/employees", "/attendance"}
    /\ now = 1
    /\ inflight = {}
    /\ pendingAuth = {}
    /\ last = NoEvent
    /\ InitUi

NextForms ==
    \/ \E name \in DOMAIN AddFieldValues :
        \E value \in AddFieldValues[name] : AddChange(name, value)
    \/ AddSubmit
    \/ AddSuccess
    \/ \E error \in FormErrors : AddFailure(error)
    \/ \E name \in DOMAIN MarkFieldValues :
        \E value \in MarkFieldValues[name] : MarkChange(name, value)
    \/ MarkMount
    \/ \E data \in MarkEmployeeLists : MarkEmployeesArrive(data)
    \/ \E error \in MarkEmployeeErrors : MarkEmployeesFail(error)
    \/ MarkRetryEmployees
    \/ MarkSubmit
    \/ MarkSuccess
    \/ \E error \in FormErrors : MarkFailure(error)

SpecForms == InitForms /\ [][NextForms]_vars

\* ------------------------------------------------------------- Pagination
\* EmployeeList and AttendanceView paginate their list the same way.

\* const recordsPerPage = 10
recordsPerPage == 10

\* array.slice(from, to)
Slice(items, from, to) ==
    SubSeq(items, from + 1, IF to < Len(items) THEN to ELSE Len(items))

\* The pagination effect: the records of the current page.
PageSlice(items, page) ==
    Slice(items, page * recordsPerPage - recordsPerPage, page * recordsPerPage)

\* Math.ceil(length / recordsPerPage)
TotalPages(items) == (Len(items) + recordsPerPage - 1) \div recordsPerPage

\* --------------------------------------------------------- AttendanceView

\* The number of attendance fetches one view issues in the model.
MaxFetches == 3

ViewFilterValues ==
    [selectedEmployee |-> {"", "E1"},
     startDate |-> {"", "2024-01-01"},
     endDate |-> {"", "2024-01-03"},
     statusFilter |-> {"", "Present"}]

\* What an attendance fetch can be answered with: no record, two records,
\* a page and one record more.
ViewRecordLists ==
    { <<>>, <<R1, R2>>,
      [i \in 1..11 |-> AttendanceRecord(i, "E1", "2024-01-01", "PRESENT", Undefined)] }

ViewErrors ==
    { ResponseError(500, "", NoBody),
      AxiosError(Undefined, TRUE, Some("ECONNABORTED"), "timeout of 5000ms exceeded") }

\* if (value) params.key = value
ParamOf(value) == IF value # "" THEN Some(value) ELSE Undefined

\* The call the fetch effect issues for the filters of a view:
\* fetchAttendanceByEmployee when an employee is selected (it sends no
\* status_filter), fetchAllAttendance otherwise.
ViewFetchOf(v) ==
    [id |-> v.issued + 1,
     employeeId |-> v.selectedEmployee,
     start_date |-> ParamOf(v.startDate),
     end_date |-> ParamOf(v.endDate),
     status_filter |-> IF v.selectedEmployee # "" THEN Undefined
                       ELSE ParamOf(v.statusFilter)]

\* fetchAllAttendance / fetchAttendanceByEmployee up to the await.
ViewFetch(v) ==
    [v EXCEPT !.isLoading = TRUE, !.error = "",
              !.pending = @ \cup {ViewFetchOf(v)},
              !.issued = @ + 1]

\* The pagination effect: attendanceRecords is the current page's slice.
ViewShow(v) ==
    [v EXCEPT !.attendanceRecords = PageSlice(v.allAttendanceRecords, v.currentPage)]

\* The filter controls are rendered once the employees are loaded.
ViewControlsShown ==
    /\ attendanceView.employeesCall # "idle"
    /\ ~attendanceView.isLoadingEmployees
    /\ attendanceView.employeesError = ""

\* The two mount effects: fetchEmployees and the first attendance fetch.
ViewMount ==
    /\ location = "/attendance"
    /\ attendanceView.employeesCall = "idle"
    /\ attendanceView' =
        ViewFetch([attendanceView EXCEPT !.employeesCall = "pending",
                                         !.isLoadingEmployees = TRUE,
                                         !.employeesError = ""])
    /\ last' = [NoEvent EXCEPT !.type = "viewMount"]
    /\ UNCHANGED <<sessionVars, dashboard, addEmployee, markAttendance, employeeList>>

\* fetchEmployees after the await, fulfilled.
ViewEmployeesArrive ==
    /\ attendanceView.employeesCall = "pending"
    /\ attendanceView' = [attendanceView EXCEPT !.employeesCall = "fulfilled",
                                                !.isLoadingEmployees = FALSE]
    /\ last' = [NoEvent EXCEPT !.type = "viewEmployees"]
    /\ UNCHANGED <<sessionVars, dashboard, addEmployee, markAttendance, employeeList>>

\* fetchEmployees after the await, rejected.
ViewEmployeesFail(error) ==
    /\ attendanceView.employeesCall = "pending"
    /\ attendanceView' =
        [attendanceView EXCEPT
            !.employeesCall = "rejected", !.isLoadingEmployees = FALSE,
            !.employeesError = ErrorMessageOr(error, "Failed to fetch employees")]
    /\ localStorage' = StorageAfter(localStorage, responseSideEffects(error))
    /\ location' = LocationAfter(location, responseSideEffects(error))
    /\ last' = [NoEvent EXCEPT !.type = "viewEmployeesFailure", !.error = Some(error),
                               !.userMessage = responseUserMessage(error),
                               !.effects = responseSideEffects(error)]
    /\ UNCHANGED <<now, inflight, pendingAuth, dashboard, addEmployee, markAttendance, employeeList>>

\* The employees error screen's retry: fetchEmployees again.
ViewRetryEmployees ==
    /\ attendanceView.employeesCall = "rejected"
    /\ location = "/attendance"
    /\ attendanceView' = [attendanceView EXCEPT !.employeesCall = "pending",
                                                !.isLoadingEmployees = TRUE,
                                                !.employeesError = ""]
    /\ last' = [NoEvent EXCEPT !.type = "viewRetryEmployees"]
    /\ UNCHANGED <<sessionVars, dashboard, addEmployee, markAttendance, employeeList>>

\* handleEmployeeChange or the onChange of a filter control, and the fetch
\* effect its state change triggers.
ViewFilterChange(name, value) ==
    /\ location = "/attendance"
    /\ ViewControlsShown
    /\ attendanceView.issued < MaxFetches
    /\ attendanceView[name] # value
    /\ attendanceView' =
        ViewFetch(ViewShow([attendanceView EXCEPT ![name] = value,
                                                  !.currentPage = 1]))
    /\ last' = [NoEvent EXCEPT !.type = "viewFilterChange"]
    /\ UNCHANGED <<sessionVars, dashboard, addEmployee, markAttendance, employeeList>>

\* clearFilters, and the fetch effect its state change triggers.
ViewClearFilters ==
    /\ location = "/attendance"
    /\ ViewControlsShown
    /\ attendanceView.issued < MaxFetches
    /\ \/ attendanceView.startDate # ""
       \/ attendanceView.endDate # ""
       \/ attendanceView.statusFilter # ""
    /\ attendanceView' =
        ViewFetch(ViewShow([attendanceView EXCEPT !.startDate = "", !.endDate = "",
                                                  !.statusFilter = "",
                                                  !.currentPage = 1]))
    /\ last' = [NoEvent EXCEPT !.type = "viewClearFilters"]
    /\ UNCHANGED <<sessionVars, dashboard, addEmployee, markAttendance, employeeList>>

\* The error message's retry button: the same fetch again.
ViewRetry ==
    /\ location = "/attendance"
    /\ ViewControlsShown
    /\ attendanceView.issued < MaxFetches
    /\ ~attendanceView.isLoading
    /\ attendanceView.error # ""
    /\ attendanceView' = ViewFetch(attendanceView)
    /\ last' = [NoEvent EXCEPT !.type = "viewRetry"]
    /\ UNCHANGED <<sessionVars, dashboard, addEmployee, markAttendance, employeeList>>

\* The table and, for more than one page, the pagination are rendered.
ViewTableShown ==
    /\ ViewControlsShown
    /\ ~attendanceView.isLoading
    /\ attendanceView.error = ""
    /\ attendanceView.attendanceRecords # <<>>

\* onPageChange={setCurrentPage}, and the pagination effect.
ViewPageChange(page) ==
    /\ location = "/attendance"
    /\ ViewTableShown
    /\ TotalPages(attendanceView.allAttendanceRecords) > 1
    /\ page \in 1..TotalPages(attendanceView.allAttendanceRecords)
    /\ page # attendanceView.currentPage
    /\ attendanceView' = ViewShow([attendanceView EXCEPT !.currentPage = page])
    /\ last' = [NoEvent EXCEPT !.type = "viewPageChange"]
    /\ UNCHANGED <<sessionVars, dashboard, addEmployee, markAttendance, employeeList>>

\* Mutant: a fulfilled fetch keeps the page the view was on.
ViewFetchArrive_KeepPage(fetch, data) ==
    /\ fetch \in attendanceView.pending
    /\ attendanceView' =
        ViewShow([attendanceView EXCEPT !.pending = @ \ {fetch},
                                        !.allAttendanceRecords = data,
                                        !.heldFor = Some(fetch),
                                        !.isLoading = FALSE])
    /\ last' = [NoEvent EXCEPT !.type = "viewFetchArrive"]
    /\ UNCHANGED <<sessionVars, dashboard, addEmployee, markAttendance, employeeList>>

\* A fetch after its await, fulfilled: the records replace the list, the
\* page goes back to 1, the pagination effect shows the first page, and
\* finally ends the loading state.
ViewFetchArrive(fetch, data) ==
    /\ fetch \in attendanceView.pending
    /\ attendanceView' =
        ViewShow([attendanceView EXCEPT !.pending = @ \ {fetch},
                                        !.allAttendanceRecords = data,
                                        !.currentPage = 1,
                                        !.heldFor = Some(fetch),
                                        !.isLoading = FALSE])
    /\ last' = [NoEvent EXCEPT !.type = "viewFetchArrive"]
    /\ UNCHANGED <<sessionVars, dashboard, addEmployee, markAttendance, employeeList>>

\* A fetch after its await, rejected: catch sets the error, finally ends
\* the loading state.
ViewFetchFail(fetch, error) ==
    /\ fetch \in attendanceView.pending
    /\ attendanceView' =
        [attendanceView EXCEPT
            !.pending = @ \ {fetch},
            !.error = ErrorMessageOr(error, "Failed to fetch attendance records"),
            !.isLoading = FALSE]
    /\ localStorage' = StorageAfter(localStorage, responseSideEffects(error))
    /\ location' = LocationAfter(location, responseSideEffects(error))
    /\ last' = [NoEvent EXCEPT !.type = "viewFetchFailure", !.error = Some(error),
                               !.userMessage = responseUserMessage(error),
                               !.effects = responseSideEffects(error)]
    /\ UNCHANGED <<now, inflight, pendingAuth, dashboard, addEmployee, markAttendance, employeeList>>

\* The attendance page just opened by a signed-in user.
InitView ==
    /\ localStorage = [authToken |-> Some("dummy-jwt-token-1")]
    /\ location = "/attendance"
    /\ now = 1
    /\ inflight = {}
    /\ pendingAuth = {}
    /\ last = NoEvent
    /\ InitUi

NextView ==
    \/ ViewMount
    \/ ViewEmployeesArrive
    \/ \E error \in ViewErrors : ViewEmployeesFail(error)
    \/ ViewRetryEmployees
    \/ \E name \in DOMAIN ViewFilterValues :
        \E value \in ViewFilterValues[name] : ViewFilterChange(name, value)
    \/ ViewClearFilters
    \/ ViewRetry
    \/ \E page \in 1..TotalPages(attendanceView.allAttendanceRecords) :
            ViewPageChange(page)
    \/ \E fetch \in attendanceView.pending, data \in ViewRecordLists :
            ViewFetchArrive(fetch, data)
    \/ \E fetch \in attendanceView.pending, error \in ViewErrors :
            ViewFetchFail(fetch, error)

SpecView == InitView /\ [][NextView]_vars

\* ----------------------------------------------------------- EmployeeList

MaxListFetches == 2
MaxDeletes == 2

\* A row of the employee table: the server's id and the business key.
Row(id, employee_id) == [id |-> id, employee_id |-> employee_id]

ListIds == << "E01", "E02", "E03", "E04", "E05", "E06", "E07", "E08", "E09",
              "E10", "E11" >>

\* What GET /employees can be answered with: no employee, three rows of
\* which two share a business key, a page and one row more.
ListAnswers ==
    { <<>>,
      << Row(1, "E01"), Row(2, "E02"), Row(3, "E01") >>,
      [i \in 1..11 |-> Row(i, ListIds[i])] }

ListErrors ==
    { ResponseError(500, "", NoBody),
      AxiosError(Undefined, FALSE, Undefined, "") }

\* Mutant: only the first employee with the business key is removed.
RemoveEmployee_FirstOnly(list, employeeId) ==
    IF \E i \in 1..Len(list) : list[i].employee_id = employeeId
        THEN LET i == CHOOSE i \in 1..Len(list) :
                        /\ list[i].employee_id = employeeId
                        /\ \A j \in 1..(i - 1) : list[j].employee_id # employeeId
             IN SubSeq(list, 1, i - 1) \o SubSeq(list, i + 1, Len(list))
        ELSE list

\* prev.filter(emp => emp.employee_id !== employeeId)
RemoveEmployee(list, employeeId) ==
    SelectSeq(list, LAMBDA emp : emp.employee_id # employeeId)

\* fetchEmployees up to the await.
ListFetch(v) ==
    [v EXCEPT !.isLoading = TRUE, !.error = "", !.fetches = @ + 1, !.issued = @ + 1]

\* The table (rows, delete buttons, pagination widget) is rendered.
ListTableShown ==
    /\ employeeList.mounted
    /\ ~employeeList.isLoading
    /\ employeeList.error = ""
    /\ employeeList.employees # <<>>

\* The mount effects: fetchEmployees, and the pagination effect on the
\* empty list.
ListMount ==
    /\ location = "/employees"
    /\ ~employeeList.mounted
    /\ employeeList' = ListFetch([employeeList EXCEPT !.mounted = TRUE])
    /\ last' = [NoEvent EXCEPT !.type = "listMount"]
    /\ UNCHANGED <<sessionVars, dashboard, addEmployee, markAttendance, attendanceView>>

\* refreshTrigger changes (an employee was added): fetchEmployees again.
ListRefresh ==
    /\ location = "/employees"
    /\ employeeList.mounted
    /\ employeeList.issued < MaxListFetches
    /\ employeeList' = ListFetch(employeeList)
    /\ last' = [NoEvent EXCEPT !.type = "listRefresh"]
    /\ UNCHANGED <<sessionVars, dashboard, addEmployee, markAttendance, attendanceView>>

\* The error screen's retry: fetchEmployees again.
ListRetry ==
    /\ location = "/employees"
    /\ employeeList.mounted
    /\ ~employeeList.isLoading
    /\ employeeList.error # ""
    /\ employeeList.issued < MaxListFetches
    /\ employeeList' = ListFetch(employeeList)
    /\ last' = [NoEvent EXCEPT !.type = "listRetry"]
    /\ UNCHANGED <<sessionVars, dashboard, addEmployee, markAttendance, attendanceView>>

\* fetchEmployees after the await, fulfilled; the pagination effect then
\* shows the current page of the new list.
ListFetchArrive(data) ==
    /\ employeeList.fetches > 0
    /\ employeeList' =
        [employeeList EXCEPT !.fetches = @ - 1,
                             !.allEmployees = data,
                             !.employees = PageSlice(data, employeeList.currentPage),
                             !.isLoading = FALSE]
    /\ last' = [NoEvent EXCEPT !.type = "listFetchArrive"]
    /\ UNCHANGED <<sessionVars, dashboard, addEmployee, markAttendance, attendanceView>>

\* fetchEmployees after the await, rejected.
ListFetchFail(error) ==
    /\ employeeList.fetches > 0
    /\ employeeList' =
        [employeeList EXCEPT
            !.fetches = @ - 1,
            !.error = ErrorMessageOr(error, "Failed to fetch employees. Please try again."),
            !.isLoading = FALSE]
    /\ localStorage' = StorageAfter(localStorage, responseSideEffects(error))
    /\ location' = LocationAfter(location, responseSideEffects(error))
    /\ last' = [NoEvent EXCEPT !.type = "listFetchFailure", !.error = Some(error),
                               !.userMessage = responseUserMessage(error),
                               !.effects = responseSideEffects(error)]
    /\ UNCHANGED <<now, inflight, pendingAuth, dashboard, addEmployee, markAttendance, attendanceView>>

\* handlePageChange, called by the pagination widget with one of its
\* pages; the pagination effect then shows that page.
ListPageChange(page) ==
    /\ location = "/employees"
    /\ ListTableShown
    /\ page \in 1..TotalPages(employeeList.allEmployees)
    /\ page # employeeList.currentPage
    /\ employeeList' =
        [employeeList EXCEPT !.currentPage = page,
                             !.employees = PageSlice(employeeList.allEmployees, page)]
    /\ last' = [NoEvent EXCEPT !.type = "listPageChange"]
    /\ UNCHANGED <<sessionVars, dashboard, addEmployee, markAttendance, attendanceView>>

\* The business keys of the displayed rows, one delete button each.
ListDeletable ==
    { employeeList.employees[i].employee_id : i \in 1..Len(employeeList.employees) }

\* handleDeleteEmployee, window.confirm answered no.
ListDeleteCancel(employeeId) ==
    /\ location = "/employees"
    /\ ListTableShown
    /\ employeeId \in ListDeletable
    /\ employeeList.deleteLoading # Some(employeeId)
    /\ last.type # "listDeleteCancel"
    /\ last' = [NoEvent EXCEPT !.type = "listDeleteCancel", !.req = Some(employeeId)]
    /\ UNCHANGED <<sessionVars, uiVars>>

\* handleDeleteEmployee up to the await, window.confirm answered yes.
ListDeleteStart(employeeId) ==
    /\ location = "/employees"
    /\ ListTableShown
    /\ employeeId \in ListDeletable
    /\ employeeList.deleteLoading # Some(employeeId)
    /\ employeeId \notin employeeList.deletes
    /\ employeeList.deleted < MaxDeletes
    /\ employeeList' =
        [employeeList EXCEPT !.deleteLoading = Some(employeeId),
                             !.deletes = @ \cup {employeeId},
                             !.deleted = @ + 1]
    /\ last' = [NoEvent EXCEPT !.type = "listDeleteStart", !.req = Some(employeeId)]
    /\ UNCHANGED <<sessionVars, dashboard, addEmployee, markAttendance, attendanceView>>

\* handleDeleteEmployee after the await, fulfilled: both lists are filtered,
\* the marker is cleared; the pagination effect then shows the current
\* page of the filtered list.
ListDeleteSuccess(employeeId) ==
    /\ employeeId \in employeeList.deletes
    /\ employeeList' =
        [employeeList EXCEPT
            !.deletes = @ \ {employeeId},
            !.allEmployees = RemoveEmployee(@, employeeId),
            !.employees = PageSlice(RemoveEmployee(employeeList.allEmployees, employeeId),
                                    employeeList.currentPage),
            !.deleteLoading = Undefined]
    /\ last' = [NoEvent EXCEPT !.type = "listDeleteSuccess", !.req = Some(employeeId)]
    /\ UNCHANGED <<sessionVars, dashboard, addEmployee, markAttendance, attendanceView>>

\* handleDeleteEmployee after the await, rejected.
ListDeleteFail(employeeId, error) ==
    /\ employeeId \in employeeList.deletes
    /\ employeeList' =
        [employeeList EXCEPT
            !.deletes = @ \ {employeeId},
            !.error = ErrorMessageOr(error, "Failed to delete employee. Please try again."),
            !.deleteLoading = Undefined]
    /\ localStorage' = StorageAfter(localStorage, responseSideEffects(error))
    /\ location' = LocationAfter(location, responseSideEffects(error))
    /\ last' = [NoEvent EXCEPT !.type = "listDeleteFailure", !.req = Some(employeeId),
                               !.error = Some(error),
                               !.userMessage = responseUserMessage(error),
                               !.effects = responseSideEffects(error)]
    /\ UNCHANGED <<now, inflight, pendingAuth, dashboard, addEmployee, markAttendance, attendanceView>>

\* The employees page just opened by a signed-in user.
InitList ==
    /\ localStorage = [authToken |-> Some("dummy-jwt-token-1")]
    /\ location = "/employees"
    /\ now = 1
    /\ inflight = {}
    /\ pendingAuth = {}
    /\ last = NoEvent
    /\ InitUi

NextList ==
    \/ ListMount
    \/ ListRefresh
    \/ ListRetry
    \/ \E data \in ListAnswers : ListFetchArrive(data)
    \/ \E error \in ListErrors : ListFetchFail(error)
    \/ \E page \in 1..TotalPages(employeeList.allEmployees) : ListPageChange(page)
    \/ \E employeeId \in ListDeletable : ListDeleteCancel(employeeId)
    \/ \E employeeId \in ListDeletable : ListDeleteStart(employeeId)
    \/ \E employeeId \in employeeList.deletes : ListDeleteSuccess(employeeId)
    \/ \E employeeId \in employeeList.deletes, error \in ListErrors :
            ListDeleteFail(employeeId, error)

SpecList == InitList /\ [][NextList]_vars

\* ------------------------------------------------------- dashboard claims

DashFailed ==
    dashboard.employeesCall = "rejected" \/ dashboard.attendanceCall = "rejected"

\* C13: the dashboard's two list calls are issued together and joined: in
\* every order of the two answers, once either call has failed the
\* dashboard is in the error state (not loading, an error message set, the
\* error screen on the next render) with both lists still empty, so no
\* state has one list loaded while the other call has failed.
C13_Dashboard_Join_Fails_As_A_Whole ==
    /\ (dashboard.employeesCall = "idle") <=> (dashboard.attendanceCall = "idle")
    /\ DashFailed =>
        /\ dashboard.settled
        /\ ~dashboard.isLoading
        /\ dashboard.error # ""
        /\ dashboard.employees = <<>>
        /\ dashboard.attendanceRecords = <<>>
        /\ last.type = "dashRender" => dashboard.view[1].screen = "error"

C13_Witness ==
    /\ dashboard.employeesCall = "fulfilled"
    /\ dashboard.employeesData = Some(<<E1, E2>>)
    /\ dashboard.attendanceCall = "rejected"
    /\ last.type = "dashRender"
    /\ dashboard.view[1].screen = "error"
    /\ dashboard.view[1].error = "Server error. Please try again later."

Rendered == last.type = "dashRender"

\* The position in a records list of the first PRESENT record of an employee.
FirstPresent(records, employeeId) ==
    CHOOSE i \in 1..Len(records) :
        /\ records[i].employee_id = employeeId /\ records[i].status = "PRESENT"
        /\ \A j \in 1..(i - 1) :
            ~(records[j].employee_id = employeeId /\ records[j].status = "PRESENT")

\* C15: for every employees list and attendance-records list a render is
\* given, the top-performers list it shows has at most 5 entries, is in
\* non-increasing order of present-day count, and lists entries of equal
\* count in the order in which those employees first appear in the
\* attendance-records list.
C15_Top_Performers_Keep_Input_Order ==
    [][ Rendered' =>
        LET records == dashboard.attendanceRecords
            top == dashboard'.view[1].topPerformers
        IN /\ Len(top) <= 5
           /\ \A i \in 1..Len(top), j \in 1..Len(top) :
                i < j =>
                    /\ top[i].presentDays >= top[j].presentDays
                    /\ top[i].presentDays = top[j].presentDays =>
                        FirstPresent(records, top[i].employeeId)
                            < FirstPresent(records, top[j].employeeId)
      ]_vars

\* The sum of the totals of a department rollup.
RECURSIVE SumTotals(_)
SumTotals(stats) ==
    IF stats = <<>> THEN 0 ELSE stats[1].value.total + SumTotals(Tail(stats))

\* C16: for every employees list, the empty one and those with a repeated
\* department included, the totals of departmentStats add up to the number
\* of employees.
C16_Department_Totals_Sum_To_Employees ==
    Rendered => SumTotals(dashboard.view[1].departmentStats) = Len(dashboard.employees)

C16_Witness ==
    /\ Rendered
    /\ dashboard.employees = <<E1, E2>>
    /\ dashboard.view[1].departmentStats
        = << [key |-> "Engineering", value |-> [total |-> 2, presentDays |-> 0]] >>

C18_Render_Leaves_Lists_Unchanged ==
    [][ Rendered' =>
            /\ dashboard'.employees = dashboard.employees
            /\ dashboard'.attendanceRecords = dashboard.attendanceRecords ]_vars

\* ----------------------------------------------------------- form claims

EmployeeNotFound(error) ==
    /\ error.response # Undefined
    /\ error.response[1].status >= 400
    /\ error.response[1].status < 500
    /\ error.response[1].data = DetailBody("Employee not found")

\* C14: when a mark-attendance call is answered by a 4xx response whose
\* body is {detail: {message: "Employee not found"}}, the message derived
\* for it is exactly "Employee not found" and the form shows it as its
\* form-level submit error, with no field-level error.
C14_Employee_Not_Found_Is_Submit_Error ==
    (last.type = "markFailure" /\ EmployeeNotFound(last.error[1])) =>
        /\ last.userMessage = Some("Employee not found")
        /\ markAttendance.errors = [NoErrors EXCEPT !.submit = Some("Employee not found")]

\* A form's data fails local validation: a required field is empty or
\* whitespace-only.
HasBlankField(formData) == \E k \in DOMAIN formData : Trim(formData[k]) = ""

\* C19: in both forms a submit whose data has a blank required field, or
\* (create-employee) an email not of the form x@y.z, sends no request and
\* shows field errors; a create or mark request is sent only by a submit,
\* carries the form data that submit validated, and that validation
\* found no field error.
C19_Invalid_Form_Sends_Nothing ==
    [][ /\ last'.type = "addSubmit" =>
            /\ (HasBlankField(addEmployee.formData) \/ ~EmailTest(addEmployee.formData.email)) =>
                    /\ addEmployee'.request = Undefined
                    /\ ~NoFieldErrors(addEmployee'.errors)
                    /\ ~addEmployee'.isLoading
            /\ addEmployee'.request # Undefined =>
                    /\ addEmployee'.request[1].data = addEmployee.formData
                    /\ NoFieldErrors(last'.result[1])
        /\ last'.type = "markSubmit" =>
            /\ HasBlankField(markAttendance.formData) =>
                    /\ markAttendance'.request = Undefined
                    /\ ~NoFieldErrors(markAttendance'.errors)
                    /\ ~markAttendance'.isLoading
            /\ markAttendance'.request # Undefined =>
                    /\ markAttendance'.request[1].data = markAttendance.formData
                    /\ NoFieldErrors(last'.result[1])
        /\ (addEmployee'.request # Undefined /\ addEmployee'.request # addEmployee.request) =>
                last'.type = "addSubmit"
        /\ (markAttendance'.request # Undefined /\ markAttendance'.request # markAttendance.request) =>
                last'.type = "markSubmit"
      ]_vars

C19_Witness ==
    /\ last.type = "addSubmit"
    /\ addEmployee.formData = [employee_id |-> "EMP001", full_name |-> "Asha Rao",
                               email |-> "asha@hrms", department |-> "Engineering"]
    /\ addEmployee.errors = [NoErrors EXCEPT !.email = Some("Please enter a valid email")]
    /\ addEmployee.request = Undefined
    /\ last.req = Undefined

\* ------------------------------------------------- attendance view claims

\* C20: in the attendance list view the loading state is shown while a
\* call is in flight: whenever an attendance fetch the view issued has
\* neither resolved nor rejected, isLoading is true, also when a filter or
\* employee change starts a second fetch before the first one settles.
C20_Loading_While_Fetch_In_Flight ==
    attendanceView.pending # {} => attendanceView.isLoading

\* -------------------------------------------------- employee list claims

\* C21: the employee list view shows its empty state only when the list
\* has no item: whenever the view is neither loading nor in error and
\* allEmployees is non-empty, the displayed page is non-empty and
\* currentPage does not exceed the number of pages.
C21_Empty_State_Only_For_Empty_List ==
    (employeeList.mounted /\ ~employeeList.isLoading /\ employeeList.error = ""
        /\ employeeList.allEmployees # <<>>) =>
            /\ employeeList.employees # <<>>
            /\ employeeList.currentPage <= TotalPages(employeeList.allEmployees)

HasEmployee(list, employeeId) ==
    \E i \in 1..Len(list) : list[i].employee_id = employeeId

\* seq without the rows of business key employeeId, compared row by row.
IsListWithout(after, before, employeeId) ==
    LET kept == { i \in 1..Len(before) : before[i].employee_id # employeeId }
    IN /\ Len(after) = Cardinality(kept)
       /\ \A i \in kept :
            after[Cardinality({ j \in kept : j <= i })] = before[i]

\* C24: a confirmed delete of business key X that succeeds removes every
\* employee with employee_id X from the full list and from the displayed
\* page, issues no fetch, and keeps the other employees in their order; a
\* delete that fails or is not confirmed leaves both lists as they were (a
\* failure sets the error message); whenever a delete call settles the
\* per-row deleting marker is cleared.
C24_Delete_Removes_Locally ==
    [][ /\ last'.type = "listDeleteSuccess" =>
            /\ ~HasEmployee(employeeList'.allEmployees, last'.req[1])
            /\ ~HasEmployee(employeeList'.employees, last'.req[1])
            /\ IsListWithout(employeeList'.allEmployees, employeeList.allEmployees,
                             last'.req[1])
            /\ employeeList'.issued = employeeList.issued
            /\ employeeList'.fetches = employeeList.fetches
            /\ employeeList'.deleteLoading = Undefined
        /\ last'.type = "listDeleteFailure" =>
            /\ employeeList'.allEmployees = employeeList.allEmployees
            /\ employeeList'.employees = employeeList.employees
            /\ employeeList'.error # ""
            /\ employeeList'.deleteLoading = Undefined
        /\ last'.type = "listDeleteCancel" => employeeList' = employeeList
      ]_vars

C24_Witness ==
    /\ last.type = "listDeleteSuccess"
    /\ last.req = Some("E01")
    /\ employeeList.allEmployees = << Row(2, "E02") >>
    /\ employeeList.employees = << Row(2, "E02") >>
    /\ employeeList.deleteLoading = Undefined

\* ------------------------------------------------- failure surface claims

\* The one message a form's errors object shows.
ShownError(errors) ==
    LET set == { errors[k] : k \in { k \in DOMAIN errors : errors[k] # Undefined } }
    IN IF Cardinality(set) = 1 THEN CHOOSE m \in set : TRUE ELSE Undefined

\* C22: every failure surface (dashboard, employee list fetch and delete,
\* attendance list fetches, the employee fetches of the attendance view and
\* of the mark-attendance form, both submit handlers) displays the message
\* the response interceptor attached to the error whenever one is
\* attached, so that a local default is shown only when none is.
C22_Surfaces_Show_Attached_Message ==
    [][ Truthy(last'.userMessage) =>
        /\ (last'.type = "dashFailure" /\ ~dashboard.settled) =>
                dashboard'.error = last'.userMessage[1]
        /\ last'.type \in {"listFetchFailure", "listDeleteFailure"} =>
                employeeList'.error = last'.userMessage[1]
        /\ last'.type = "viewFetchFailure" =>
                attendanceView'.error = last'.userMessage[1]
        /\ last'.type = "viewEmployeesFailure" =>
                attendanceView'.employeesError = last'.userMessage[1]
        /\ last'.type = "markEmployeesFailure" =>
                markAttendance'.employeesError = last'.userMessage[1]
        /\ last'.type = "markFailure" =>
                ShownError(markAttendance'.errors) = last'.userMessage
        /\ last'.type = "addFailure" =>
                ShownError(addEmployee'.errors) = last'.userMessage
      ]_vars

\* -------------------------------------------------- recent activity claim

\* How many times a record occurs in a list.
Occurrences(list, record) == Cardinality({ i \in 1..Len(list) : list[i] = record })

\* A record's date key: created_at when present, attendance_date otherwise.
DateKey(record) ==
    IF record.created_at # Undefined /\ record.created_at[1] # ""
        THEN DateTime(record.created_at[1])
        ELSE DateTime(record.attendance_date)

\* C23: the recent-activity list of a dashboard render has at most 10
\* records (all of them when there are fewer), every one drawn from the
\* loaded attendance list, in non-increasing order of date key; every
\* record left out has a key no later than every record shown.
C23_Recent_Activity_Is_Ten_Most_Recent ==
    [][ (Rendered' /\ dashboard'.view[1].screen = "dashboard") =>
        LET records == dashboard.attendanceRecords
            recent == dashboard'.view[1].recentActivity
        IN /\ Len(recent) <= 10
           /\ Len(recent) = (IF Len(records) < 10 THEN Len(records) ELSE 10)
           /\ \A i \in 1..Len(recent) :
                Occurrences(recent, recent[i]) <= Occurrences(records, recent[i])
           /\ \A i \in 1..Len(recent), j \in 1..Len(recent) :
                i < j => DateKey(recent[i]) >= DateKey(recent[j])
           /\ \A k \in 1..Len(records) :
                Occurrences(recent, records[k]) < Occurrences(records, records[k]) =>
                    \A i \in 1..Len(recent) : DateKey(records[k]) <= DateKey(recent[i])
      ]_vars

C23_Witness ==
    /\ Rendered
    /\ Len(dashboard.attendanceData[1]) = 12
    /\ Len(dashboard.view[1].recentActivity) = 10
    /\ dashboard.view[1].recentActivity[1].attendance_date = "2024-01-02"
    /\ dashboard.view[1].recentActivity[10].attendance_date = "2024-01-01"

\* ------------------------------------------------ rollup consistency claim

RECURSIVE SumPresentDays(_)
SumPresentDays(stats) ==
    IF stats = <<>> THEN 0 ELSE stats[1].value.presentDays + SumPresentDays(Tail(stats))

DistinctIds(employees) ==
    \A i \in 1..Len(employees), j \in 1..Len(employees) :
        i # j => employees[i].employee_id # employees[j].employee_id

IsPresentOf(record, employeeId) ==
    record.status = "PRESENT" /\ record.employee_id = employeeId

\* C30: for every employees list with pairwise distinct employee_id values
\* and every attendance-records list, the present days of departmentStats
\* add up to at most the number of PRESENT records, and to exactly that
\* number when and only when every PRESENT record is of an employee in the
\* list; every top performer has a PRESENT record, and has name and
\* department "Unknown" when and only when no employee has its id.
C30_Rollup_Consistent_With_Records ==
    (Rendered /\ DistinctIds(dashboard.employees)) =>
        LET employees == dashboard.employees
            records == dashboard.attendanceRecords
            view == dashboard.view[1]
            present == Cardinality({ k \in 1..Len(records) : records[k].status = "PRESENT" })
            known(id) == \E i \in 1..Len(employees) : employees[i].employee_id = id
        IN /\ SumPresentDays(view.departmentStats) <= present
           /\ (SumPresentDays(view.departmentStats) = present) <=>
                (\A k \in 1..Len(records) :
                    records[k].status = "PRESENT" => known(records[k].employee_id))
           /\ \A t \in 1..Len(view.topPerformers) :
                /\ \E k \in 1..Len(records) :
                        IsPresentOf(records[k], view.topPerformers[t].employeeId)
                /\ (view.topPerformers[t].employeeName = "Unknown"
                        /\ view.topPerformers[t].department = "Unknown")
                    <=> ~known(view.topPerformers[t].employeeId)

C30_Witness ==
    /\ Rendered
    /\ dashboard.employees = <<E1, E7>>
    /\ dashboard.attendanceData = Some(<<R1, R4>>)
    /\ SumPresentDays(dashboard.view[1].departmentStats) = 1
    /\ dashboard.view[1].totalPresentDays = 2
    /\ \E t \in 1..Len(dashboard.view[1].topPerformers) :
        dashboard.view[1].topPerformers[t]
            = [employeeId |-> "10", employeeName |-> "Unknown",
               department |-> "Unknown", presentDays |-> 1]

\* ------------------------------------------------------ auth facade claim

ErrorKeys(errors) == { k \in DOMAIN errors : errors[k] # Undefined }

\* C25: when a create-employee call fails the form sets exactly one error
\* key, chosen from the lower-cased message by first match: employee_id
\* when it contains "duplicate" or "already exists", otherwise email when
\* it contains "email", otherwise submit; the errors shown before are
\* replaced, the form data stays as it was and onEmployeeAdded is not
\* called.
C25_Create_Failure_Sets_One_Key ==
    [][ last'.type = "addFailure" =>
        /\ Cardinality(ErrorKeys(addEmployee'.errors)) = 1
        /\ \A k \in ErrorKeys(addEmployee'.errors) :
            LET lower == ToLowerCase(addEmployee'.errors[k][1])
            IN k = (IF Includes(lower, "duplicate") \/ Includes(lower, "already exists")
                        THEN "employee_id"
                    ELSE IF Includes(lower, "email") THEN "email"
                    ELSE "submit")
        /\ addEmployee'.formData = addEmployee.formData
        /\ addEmployee'.added = addEmployee.added
        /\ addEmployee'.successMessage = addEmployee.successMessage
      ]_vars

C25_Witness ==
    /\ last.type = "addFailure"
    /\ addEmployee.errors = [NoErrors EXCEPT !.employee_id = Some("Email already exists")]
    /\ addEmployee.formData.employee_id = "EMP001"
    /\ ~addEmployee.added

\* C28: in both forms the success banner and an error are never shown
\* together: whenever the errors object holds a field or submit error,
\* successMessage is empty.
C28_Success_And_Error_Exclusive ==
    /\ ErrorKeys(addEmployee.errors) # {} => addEmployee.successMessage = ""
    /\ ErrorKeys(markAttendance.errors) # {} => markAttendance.successMessage = ""

\* ------------------------------------ Claims on the attendance list view

\* The request parameters of a fetch, without its sequence number.
SelectionOf(fetch) ==
    [employeeId |-> fetch.employeeId, start_date |-> fetch.start_date,
     end_date |-> fetch.end_date, status_filter |-> fetch.status_filter]

\* No attendance fetch is in flight and the view has issued one.
ViewSettled == attendanceView.issued > 0 /\ attendanceView.pending = {}

\* C26: in the attendance list view, once no attendance fetch is in flight
\* (and no fetch error is shown), the records the view holds are the
\* response to the fetch issued for the current selection: the response to
\* an earlier selection never overwrites the response to a later one.
C26_Held_Records_Answer_Current_Selection ==
    (ViewSettled /\ attendanceView.error = "") =>
        /\ attendanceView.heldFor # Undefined
        /\ SelectionOf(attendanceView.heldFor[1]) =
                SelectionOf(ViewFetchOf(attendanceView))

\* The slice [(currentPage - 1) * 10, currentPage * 10) of a list.
IsPageOf(shown, all, page) ==
    LET first == (page - 1) * recordsPerPage
        rest == IF Len(all) > first THEN Len(all) - first ELSE 0
    IN /\ Len(shown) = (IF rest < recordsPerPage THEN rest ELSE recordsPerPage)
       /\ \A i \in 1..Len(shown) : shown[i] = all[first + i]

\* C27: in the attendance list view every fulfilled fetch resets
\* currentPage to 1, and whenever no fetch is in flight the displayed
\* records are the slice [(currentPage-1)*10, currentPage*10) of the held
\* records, with currentPage never beyond the last page of a non-empty list.
C27_Pagination_Consistent ==
    /\ [](attendanceView.pending = {} =>
            /\ IsPageOf(attendanceView.attendanceRecords,
                        attendanceView.allAttendanceRecords,
                        attendanceView.currentPage)
            /\ attendanceView.currentPage >= 1
            /\ attendanceView.allAttendanceRecords # <<>> =>
                    attendanceView.currentPage * recordsPerPage
                        < Len(attendanceView.allAttendanceRecords) + recordsPerPage)
    /\ [][last'.type = "viewFetchArrive" => attendanceView'.currentPage = 1]_vars

\* A fetch issued after the first one was fulfilled with a list of two
\* pages while the view stood on a page, and the first page is shown.
C27_Witness ==
    /\ last.type = "viewFetchArrive"
    /\ ViewSettled
    /\ attendanceView.issued >= 2
    /\ Len(attendanceView.allAttendanceRecords) > recordsPerPage
    /\ Len(attendanceView.attendanceRecords) = recordsPerPage
    /\ attendanceView.currentPage = 1


====
